---- MODULE Spec2Model ----
(***************************************************************************)
(* A model of comfy-mcp-server: the module-level configuration of          *)
(* comfy_mcp_server/__init__.py, its generate_image tool (template-fill,   *)
(* submit, poll, locate-output, fetch-and-persist) and the artifact        *)
(* location functions of __init__.py and comfy_client.py.                  *)
(*                                                                         *)
(* Python strings that the code only stores, compares or prints are TLA+   *)
(* strings.  Strings that the code takes apart (titles, file name          *)
(* prefixes, paths) are sequences of one-character strings.                *)
(***************************************************************************)
EXTENDS Integers, Sequences, FiniteSets, TLC

\* ------------------------------------------------------------------ bounds
\* poll_for_completion's max_attempts (20 by default in __init__.py, 60 in
\* comfy_client.py); the model runs the same loop with a smaller count.
MaxAttempts == 4
\* Largest reading of the wall clock (seconds) in a behaviour.
MaxClock == 1
\* Longest directory listing drawn for the artifact-location functions.
MaxFiles == 2
\* Most inputs of the node the normalizer's documents vary.
MaxInputs == 2
\* Most nodes of the documents node discovery is applied to.
MaxNodes == 2
\* Most pieces a path string for the time-token expander is put together from.
MaxPieces == 3
\* The number of invocations of generate_image on one loaded module.
MaxCalls == 2

\* ------------------------------------------------------- Python's None
\* None, where the other values of the variable are strings.
None == "<None>"

\* --------------------------------------------------------- char strings
kw_positive == <<"p","o","s","i","t","i","v","e">>
kw_negative == <<"n","e","g","a","t","i","v","e">>
kw_save == <<"s","a","v","e">>
kw_saveimage == <<"s","a","v","e","i","m","a","g","e">>

\* str.lower() on the characters the model's titles and file names use.
LowerChar(c) ==
    CASE c = "P" -> "p"
      [] c = "N" -> "n"
      [] c = "S" -> "s"
      [] c = "G" -> "g"
      [] c = "U" -> "u"
      [] c = "R" -> "r"
      [] c = "L" -> "l"
      [] c = "J" -> "j"
      [] c = "E" -> "e"
      [] c = "A" -> "a"
      [] c = "V" -> "v"
      [] OTHER -> c

Lower(s) == [i \in 1..Len(s) |-> LowerChar(s[i])]

\* Python's `sub in s` on strings.
Contains(s, sub) ==
    \E i \in 1..(Len(s) - Len(sub) + 1) : SubSeq(s, i, i + Len(sub) - 1) = sub

\* Python's s.endswith(suffix).
EndsWith(s, suffix) ==
    /\ Len(suffix) <= Len(s)
    /\ SubSeq(s, Len(s) - Len(suffix) + 1, Len(s)) = suffix

\* ------------------------------------------------- workflow documents
\* A graph-form input: name, whether it has a "widget" key, its "link"
\* (None when the key is missing or null, else the link id).
Inp(name, widget, link) == [name |-> name, widget |-> widget, link |-> link]

NoLink == 0 - 1

\* The values of a node input: a string literal, null, or a NodeReference
\* [source node id, output index] (a 2-element list in the JSON).
Str(s) == [kind |-> "str", val |-> s]
Null == [kind |-> "null"]
Num(n) == [kind |-> "num", val |-> n]
Ref(node, slot) == [kind |-> "ref", node |-> node, slot |-> slot]

\* The graph-form document of a workflow with titled prompt nodes and a
\* SaveImage node whose filename_prefix has a subdirectory.
GraphTitled ==
    [form |-> "graph",
     nodes |-> <<
        [id |-> 1, type |-> "CLIPTextEncode", title |-> <<"P","o","s","i","t","i","v","e">>,
         hasWidgets |-> TRUE, widgets_values |-> <<Str("old")>>,
         inputs |-> <<Inp("text", TRUE, NoLink)>>],
        [id |-> 2, type |-> "CLIPTextEncode", title |-> <<"N","e","g","a","t","i","v","e">>,
         hasWidgets |-> TRUE, widgets_values |-> <<Str("old")>>,
         inputs |-> <<Inp("text", TRUE, NoLink)>>],
        [id |-> 3, type |-> "SaveImage", title |-> <<"S","a","v","e">>,
         hasWidgets |-> TRUE, widgets_values |-> <<Str(<<"s","/","t","/","a">>)>>,
         inputs |-> <<Inp("images", FALSE, 7), Inp("filename_prefix", TRUE, NoLink)>>] >>,
     links |-> << <<7, 1, 0>> >>]

\* A graph-form document with one untitled CLIPTextEncode node and no save node.
GraphBare ==
    [form |-> "graph",
     nodes |-> <<
        [id |-> 4, type |-> "CLIPTextEncode", title |-> <<>>,
         hasWidgets |-> TRUE, widgets_values |-> <<Str("old")>>,
         inputs |-> <<Inp("text", TRUE, NoLink)>>] >>,
     links |-> <<>>]

\* A document that is already in the flat/API form.
FlatDoc ==
    [form |-> "api",
     api |-> ("6" :> [class_type |-> "CLIPTextEncode", inputs |-> [text |-> Str("old")]])
          @@ ("7" :> [class_type |-> "CLIPTextEncode", inputs |-> [text |-> Str("old")]])
          @@ ("9" :> [class_type |-> "SaveImage", inputs |-> [filename_prefix |-> Str(<<"s","/","t","/","a">>)]])]

\* workflow_data when COMFY_WORKFLOW_JSON_FILE is not set.
NoWorkflow == [form |-> "none"]

\* ----------------------------------------------- workflow_to_api_format
\* The link search of one linked input: the position of the first link whose
\* id matches, 0 when the loop ends without a match.
RECURSIVE FindLink(_, _, _)
FindLink(links, id, i) ==
    IF i > Len(links) THEN 0
    ELSE IF links[i][1] = id THEN i
    ELSE FindLink(links, id, i + 1)

\* The loop with a cursor that every input advances, not only the inputs
\* that take a widget value.
RECURSIVE NodeInputsByPosition(_, _, _, _, _)
NodeInputsByPosition(node, links, inputs, widget_idx, k) ==
    IF k > Len(node.inputs) THEN inputs
    ELSE LET inp == node.inputs[k] IN
         IF inp.widget /\ widget_idx < Len(node.widgets_values)
         THEN NodeInputsByPosition(node, links,
                                   (inp.name :> node.widgets_values[widget_idx + 1]) @@ inputs,
                                   widget_idx + 1, k + 1)
         ELSE NodeInputsByPosition(node, links, inputs, widget_idx + 1, k + 1)

\* The loop over a node's inputs: inputs so far, widget cursor, position.
RECURSIVE NodeInputs(_, _, _, _, _)
NodeInputs(node, links, inputs, widget_idx, k) ==
    IF k > Len(node.inputs) THEN inputs
    ELSE LET inp == node.inputs[k] IN
         IF inp.widget
         THEN IF widget_idx < Len(node.widgets_values)
              THEN NodeInputs(node, links,
                              (inp.name :> node.widgets_values[widget_idx + 1]) @@ inputs,
                              widget_idx + 1, k + 1)
              ELSE NodeInputs(node, links, inputs, widget_idx, k + 1)
         ELSE IF inp.link # NoLink
              THEN LET l == FindLink(links, inp.link, 1) IN
                   IF l # 0
                   THEN NodeInputs(node, links,
                                   (inp.name :> Ref(ToString(links[l][2]), links[l][3])) @@ inputs,
                                   widget_idx, k + 1)
                   ELSE NodeInputs(node, links, inputs, widget_idx, k + 1)
              ELSE NodeInputs(node, links, inputs, widget_idx, k + 1)

EmptyDict == [x \in {} |-> None]

FlatNode(node, links) ==
    [class_type |-> node.type,
     inputs |-> IF node.hasWidgets THEN NodeInputs(node, links, EmptyDict, 0, 1)
                ELSE EmptyDict]

RECURSIVE ApiFormat(_, _, _, _)
ApiFormat(nodes, links, api, k) ==
    IF k > Len(nodes) THEN api
    ELSE ApiFormat(nodes, links,
                   (ToString(nodes[k].id) :> FlatNode(nodes[k], links)) @@ api, k + 1)

\* A flat mapping taken as a document again: it is in the flat form unless
\* one of its keys is "nodes".
AsDocument(api) ==
    [form |-> IF "nodes" \in DOMAIN api THEN "keyed" ELSE "api", api |-> api]

\* A test that takes no document for the flat form.
IsApiFormatNever(workflow_data) == FALSE

\* "nodes" not in workflow_data
IsApiFormat(workflow_data) == workflow_data.form = "api"

\* A normalizer that rebuilds the nodes of a flat document from their type
\* alone.
workflow_to_api_format_rebuilding(workflow_data) ==
    IF workflow_data.form = "api"
    THEN [id \in DOMAIN workflow_data.api |->
             [class_type |-> workflow_data.api[id].class_type, inputs |-> EmptyDict]]
    ELSE IF workflow_data.form = "graph"
    THEN ApiFormat(workflow_data.nodes, workflow_data.links, EmptyDict, 1)
    ELSE [kind |-> "raise", exc |-> "TypeError"]

\* A flat mapping with a key "nodes" has a node mapping under it, whose
\* iteration yields strings: node["id"] raises TypeError.
workflow_to_api_format(workflow_data) ==
    IF IsApiFormat(workflow_data) THEN workflow_data.api
    ELSE IF workflow_data.form = "graph"
    THEN ApiFormat(workflow_data.nodes, workflow_data.links, EmptyDict, 1)
    ELSE [kind |-> "raise", exc |-> "TypeError"]

\* ------------------------------------------------ auto_discover_node_id
TitleMatches(node, title_keywords) ==
    LET title == Lower(node.title) IN
    /\ title # <<>>
    /\ \E kw \in title_keywords : Contains(title, Lower(kw))

\* The first pass without the test of the node's type.
RECURSIVE FirstPassAnyType(_, _, _, _)
FirstPassAnyType(nodes, title_keywords, class_type, k) ==
    IF k > Len(nodes) THEN None
    ELSE IF TitleMatches(nodes[k], title_keywords) THEN ToString(nodes[k].id)
         ELSE FirstPassAnyType(nodes, title_keywords, class_type, k + 1)

RECURSIVE FirstPass(_, _, _, _)
FirstPass(nodes, title_keywords, class_type, k) ==
    IF k > Len(nodes) THEN None
    ELSE IF /\ TitleMatches(nodes[k], title_keywords)
            /\ (class_type = None \/ nodes[k].type = class_type)
         THEN ToString(nodes[k].id)
         ELSE FirstPass(nodes, title_keywords, class_type, k + 1)

RECURSIVE SecondPass(_, _, _)
SecondPass(nodes, class_type, k) ==
    IF k > Len(nodes) THEN None
    ELSE IF nodes[k].type = class_type THEN ToString(nodes[k].id)
    ELSE SecondPass(nodes, class_type, k + 1)

\* Discovery without the second pass.
auto_discover_first_pass_only(workflow_data, title_keywords, class_type) ==
    IF workflow_data = NoWorkflow THEN None
    ELSE FirstPass(IF workflow_data.form = "graph" THEN workflow_data.nodes ELSE <<>>,
                   title_keywords, class_type, 1)

auto_discover_node_id(workflow_data, title_keywords, class_type) ==
    IF workflow_data = NoWorkflow THEN None
    ELSE LET nodes == IF workflow_data.form = "graph" THEN workflow_data.nodes ELSE <<>>
             first == FirstPass(nodes, title_keywords, class_type, 1)
         IN IF first # None THEN first
            ELSE IF class_type # None THEN SecondPass(nodes, class_type, 1)
            ELSE None

\* ---------------------------------------------------------------- paths
\* str.split("/"): the parts between separators, empty parts included.
RECURSIVE SplitFrom(_, _, _)
SplitFrom(s, k, cur) ==
    IF k > Len(s) THEN <<cur>>
    ELSE IF s[k] = "/" THEN <<cur>> \o SplitFrom(s, k + 1, <<>>)
    ELSE SplitFrom(s, k + 1, Append(cur, s[k]))

Split(s) == SplitFrom(s, 1, <<>>)

\* posixpath.join(path, *parts).
RECURSIVE PathJoin(_, _, _)
PathJoin(path, parts, k) ==
    IF k > Len(parts) THEN path
    ELSE LET b == parts[k] IN
         IF b # <<>> /\ b[1] = "/" THEN PathJoin(b, parts, k + 1)
         ELSE IF path = <<>> \/ path[Len(path)] = "/"
              THEN PathJoin(path \o b, parts, k + 1)
              ELSE PathJoin(path \o <<"/">> \o b, parts, k + 1)

\* The directory a path string names for the operating system: whether it
\* starts at the root, and its non-empty components.
Resolve(path) ==
    [abs |-> path # <<>> /\ path[1] = "/",
     comps |-> SelectSeq(Split(path), LAMBDA c : c # <<>>)]

\* ----------------------------------------------------------- file system
\* A directory entry: name, "file" or "dir", creation time, content.
Entry(name, kind, ctime, data) ==
    [name |-> name, kind |-> kind, ctime |-> ctime, data |-> data]

\* A file system is a function from the directories that exist (Resolve
\* values) to their listings in os.listdir order.
image_suffixes ==
    { <<".","p","n","g">>, <<".","j","p","g">>, <<".","j","p","e","g">>,
      <<".","w","e","b","p">> }

IsImageFile(e) ==
    /\ e.kind = "file"
    /\ \E suf \in image_suffixes : EndsWith(Lower(e.name), suf)

\* The sort without reverse=True: oldest first.
RECURSIVE InsertAsc(_, _)
InsertAsc(sorted, e) ==
    IF sorted = <<>> THEN <<e>>
    ELSE IF sorted[1].ctime <= e.ctime THEN <<sorted[1]>> \o InsertAsc(Tail(sorted), e)
    ELSE <<e>> \o sorted

\* list.sort(key=getctime, reverse=True): a stable sort, so entries of equal
\* creation time keep their listing order.
RECURSIVE InsertDesc(_, _)
InsertDesc(sorted, e) ==
    IF sorted = <<>> THEN <<e>>
    ELSE IF sorted[1].ctime >= e.ctime THEN <<sorted[1]>> \o InsertDesc(Tail(sorted), e)
    ELSE <<e>> \o sorted

RECURSIVE SortByCtimeDesc(_)
SortByCtimeDesc(files) ==
    IF files = <<>> THEN <<>>
    ELSE InsertDesc(SortByCtimeDesc(SubSeq(files, 1, Len(files) - 1)), files[Len(files)])

\* dict.get(key, default)
Get(dict, key, default) == IF key \in DOMAIN dict THEN dict[key] ELSE default

Raised(exc, msg) == [ok |-> FALSE, exc |-> exc, msg |-> msg]
Found(dir, e) == [ok |-> TRUE, dir |-> dir, file |-> e]

\* The part of both location functions from `if not os.path.exists(search_dir)`.
LatestImageIn(search_dir, fs) ==
    IF Resolve(search_dir) \notin DOMAIN fs
    THEN Raised("ValueError", "ComfyUI output directory not found")
    ELSE LET image_files == SelectSeq(fs[Resolve(search_dir)], IsImageFile) IN
         IF image_files = <<>>
         THEN Raised("ValueError", "No image files found")
         ELSE Found(search_dir, SortByCtimeDesc(image_files)[1])

\* "/Volumes/Sidecar/GenAI/ComfyUI/output", shortened to "/o".
base_output_dir == <<"/","o">>

\* The search directory of a SaveImage filename_prefix.
PrefixSearchDir(base, filename_prefix) ==
    IF \E i \in 1..Len(filename_prefix) : filename_prefix[i] = "/"
    THEN LET prefix_parts == Split(filename_prefix)
             dir_parts == SubSeq(prefix_parts, 1, Len(prefix_parts) - 1)
         IN PathJoin(base, dir_parts, 1)
    ELSE base

\* __init__.py: find_latest_image_in_comfy_output
LegacySearchDir(output_node_config) ==
    PrefixSearchDir(base_output_dir,
                    Get(Get(output_node_config, "inputs", EmptyDict),
                        "filename_prefix", Str(<<>>)).val)

find_latest_image_in_comfy_output(output_node_config, fs) ==
    LatestImageIn(LegacySearchDir(output_node_config), fs)

\* --------------------------------------------- workflow.py: resolve_node_input
text_inputs == <<"text", "text_b", "text_c", "text_d">>

\* The result is an input value again: the code returns the source node's
\* input as it is stored.  An index below -4 raises IndexError.
resolve_node_input(input_value, workflow_template) ==
    IF input_value.kind = "ref"
    THEN LET source_node_id == input_value.node
             output_idx == input_value.slot
         IN IF /\ source_node_id \in DOMAIN workflow_template
               /\ Get(workflow_template[source_node_id], "class_type", None) = "Text String"
               /\ output_idx < Len(text_inputs)
            THEN IF output_idx < 0 - Len(text_inputs)
                 THEN [kind |-> "raise", exc |-> "IndexError"]
                 ELSE LET input_name ==
                              text_inputs[IF output_idx >= 0 THEN output_idx + 1
                                          ELSE Len(text_inputs) + output_idx + 1]
                      IN Get(Get(workflow_template[source_node_id], "inputs", EmptyDict),
                             input_name, Str(<<>>))
            ELSE Str(<<>>)
    ELSE IF input_value.kind = "null" THEN Str(<<>>)
    ELSE IF input_value.kind = "num" THEN Str(ToString(input_value.val))
    ELSE Str(input_value.val)

\* ------------------------------------------ workflow.py: evaluate_time_tokens
time_open == <<"[","t","i","m","e","(">>

\* The clock reading datetime.now() gives in the model, per strftime directive.
year_digits == <<"2","0","2","6">>
month_digits == <<"1","1">>

\* datetime.strftime on the directives %Y, %m and %%; other characters are copied.
RECURSIVE Strftime(_, _)
Strftime(fmt, k) ==
    IF k > Len(fmt) THEN <<>>
    ELSE IF fmt[k] = "%" /\ k < Len(fmt) /\ fmt[k + 1] = "Y"
         THEN year_digits \o Strftime(fmt, k + 2)
    ELSE IF fmt[k] = "%" /\ k < Len(fmt) /\ fmt[k + 1] = "m"
         THEN month_digits \o Strftime(fmt, k + 2)
    ELSE IF fmt[k] = "%" /\ k < Len(fmt) /\ fmt[k + 1] = "%"
         THEN <<"%">> \o Strftime(fmt, k + 2)
    ELSE <<fmt[k]>> \o Strftime(fmt, k + 1)

\* The position of the first ")" at or after k, 0 when there is none.
RECURSIVE FirstClose(_, _)
FirstClose(s, k) ==
    IF k > Len(s) THEN 0
    ELSE IF s[k] = ")" THEN k
    ELSE FirstClose(s, k + 1)

\* Where a match of \[time\(([^)]+)\)\] that starts at i ends, 0 when the
\* pattern does not match at i.
TokenEnd(s, i) ==
    IF i + 5 <= Len(s) /\ SubSeq(s, i, i + 5) = time_open
    THEN LET j == FirstClose(s, i + 6) IN
         IF j > i + 6 /\ j < Len(s) /\ s[j + 1] = "]" THEN j + 1 ELSE 0
    ELSE 0

\* re.sub: leftmost matches, left to right, not overlapping.
RECURSIVE ExpandFrom(_, _)
ExpandFrom(s, i) ==
    IF i > Len(s) THEN <<>>
    ELSE LET e == TokenEnd(s, i) IN
         IF e # 0
         THEN Strftime(SubSeq(s, i + 6, e - 2), 1) \o ExpandFrom(s, e + 1)
         ELSE <<s[i]>> \o ExpandFrom(s, i + 1)

\* re.sub raises TypeError when path_str is not a string.
evaluate_time_tokens(path_str) ==
    IF path_str.kind = "str" THEN Str(ExpandFrom(path_str.val, 1))
    ELSE [kind |-> "raise", exc |-> IF path_str.kind = "raise" THEN path_str.exc ELSE "TypeError"]

\* ------------------------- comfy_client.py: ComfyClient.find_latest_image_in_output
\* The search directory: [ok |-> TRUE, dir |-> ...], or the exception raised
\* before one is determined.
ClientSearchDir(comfy_output_dir, output_node_config, workflow_template) ==
    IF comfy_output_dir = <<>>
    THEN Raised("ValueError", "COMFY_OUTPUT_DIR not configured")
    ELSE IF Get(output_node_config, "class_type", None) = "Image Save"
    THEN LET output_path_input ==
                 Get(Get(output_node_config, "inputs", EmptyDict), "output_path", Str(<<>>))
             output_path ==
                 evaluate_time_tokens(resolve_node_input(output_path_input, workflow_template))
         IN IF output_path.kind = "raise" THEN Raised(output_path.exc, "")
            ELSE IF output_path.val # <<>>
                 THEN [ok |-> TRUE, dir |-> PathJoin(comfy_output_dir, <<output_path.val>>, 1)]
                 ELSE [ok |-> TRUE, dir |-> comfy_output_dir]
    ELSE [ok |-> TRUE,
          dir |-> PrefixSearchDir(comfy_output_dir,
                                  Get(Get(output_node_config, "inputs", EmptyDict),
                                      "filename_prefix", Str(<<>>)).val)]

find_latest_image_in_output(comfy_output_dir, output_node_config, workflow_template, fs) ==
    LET search == ClientSearchDir(comfy_output_dir, output_node_config, workflow_template) IN
    IF ~search.ok THEN search
    ELSE LatestImageIn(search.dir, fs)

\* ======================================================================
\* comfy_mcp_server/__init__.py: module state and the generate_image tool
\* ======================================================================
VARIABLES
    host,                \* COMFY_URL, or None
    override_host,       \* COMFY_URL_EXTERNAL, or host when that is not set
    workflow,            \* COMFY_WORKFLOW_JSON_FILE, or None
    workflow_data,       \* the loaded document, NoWorkflow when workflow is None
    prompt_template,     \* the flat workflow generate_image fills in and submits
    pos_prompt_node_id, neg_prompt_node_id, output_node_id,
    output_mode,         \* OUTPUT_MODE as a character string, NoneChars when unset
    server,              \* what run_server did: "not_started", "refused", "running"
    pc,                  \* where the generate_image call stands
    positive_prompt, negative_prompt,    \* its arguments
    prompt_id,           \* submit_workflow's result
    pollLog,             \* the status responses poll_for_completion received
    result,              \* poll_for_completion's result
    output_data,         \* the image descriptor extracted from result
    outputFs,            \* the backend's output storage as the call found it
    source,              \* what find_latest_image_in_comfy_output returned
    image_bytes,         \* the bytes read from the located file
    full_path,           \* the name of the file opened in the save directory
    saveDir,             \* the save directory: whether it exists, and its files
    saveDir0,            \* the save directory when the call started
    clock,               \* the last reading of the wall clock
    effects,             \* the call's accesses to backend and file system, in order
    ret,                 \* what the call returned or raised
    \* --- the inputs and results of the artifact-location functions, for the
    \* --- specification that applies them on their own (LocateSpec)
    locConfig,           \* output_node_config
    locTemplate,         \* workflow_template
    locBase,             \* ComfyClient.comfy_output_dir
    locFs,               \* the file system
    locClient,           \* find_latest_image_in_output's search directory and result
    locLegacy,           \* find_latest_image_in_comfy_output's
    \* --- the input and result of the functions of workflow.py, for the
    \* --- specification that applies them on their own (WorkflowSpec)
    wfDoc,               \* a workflow document
    wfOut,               \* the function applied to it, its other arguments, its result
    \* --- the invocations of generate_image that share prompt_template, for
    \* --- the specification of several callers (RaceSpec)
    calls                \* per invocation: its position, arguments and what it submitted

moduleVars == <<host, override_host, workflow, workflow_data, pos_prompt_node_id, neg_prompt_node_id,
                output_node_id, output_mode>>
callVars == <<pc, positive_prompt, negative_prompt, prompt_id, pollLog, result,
              output_data, outputFs, source, image_bytes, full_path, effects, ret>>
mainVars == <<moduleVars, prompt_template, server, callVars, saveDir, saveDir0, clock>>
locVars == <<locConfig, locTemplate, locBase, locFs, locClient, locLegacy>>
wfVars == <<wfDoc, wfOut>>
raceVars == <<calls>>
vars == <<mainVars, locVars, wfVars, raceVars>>

\* None, where the other values of the variable are character strings.
NoneChars == <<"<None>">>

\* ---------------------------------------------------------- environment
\* The environment variables the module reads when it is imported.
Environments ==
    [COMFY_URL : {None, "http://comfy"},
     COMFY_URL_EXTERNAL : {None, "https://public"},
     COMFY_WORKFLOW_JSON_FILE : {None, "titled.json", "bare.json", "flat.json"},
     PROMPT_NODE_ID : {None, "6"},
     POS_PROMPT_NODE_ID : {None},
     NEG_PROMPT_NODE_ID : {None, "7"},
     OUTPUT_NODE_ID : {None, "9"},
     OUTPUT_MODE : {NoneChars, <<"U","r","l">>, <<"f","i","l","e">>}]

\* json.load of the workflow file.
LoadWorkflow(path) ==
    CASE path = "titled.json" -> GraphTitled
      [] path = "bare.json" -> GraphBare
      [] path = "flat.json" -> FlatDoc

\* __init__.py lines 112-136: discovery first, then the overrides.
ModulePosPromptNodeId(env, wd) ==
    IF env.PROMPT_NODE_ID # None THEN env.PROMPT_NODE_ID
    ELSE IF env.POS_PROMPT_NODE_ID # None THEN env.POS_PROMPT_NODE_ID
    ELSE auto_discover_node_id(wd, {kw_positive}, "CLIPTextEncode")

ModuleNegPromptNodeId(env, wd) ==
    IF env.NEG_PROMPT_NODE_ID # None THEN env.NEG_PROMPT_NODE_ID
    ELSE auto_discover_node_id(wd, {kw_negative}, "CLIPTextEncode")

ModuleOutputNodeId(env, wd) ==
    IF env.OUTPUT_NODE_ID # None THEN env.OUTPUT_NODE_ID
    ELSE auto_discover_node_id(wd, {kw_save, kw_saveimage}, "SaveImage")

\* ---------------------------------------------------------- wall clock
\* The clock counts the seconds since 2026-11-01 00:00:00.
digits == <<"0","1","2","3","4","5","6","7","8","9">>
day_digits == <<"0","1">>
hour_digits == <<"0","0">>

\* A field of strftime: two decimal digits (n below 100).
TwoDigits(n) == <<digits[(n \div 10) + 1], digits[(n % 10) + 1]>>

\* The format without the seconds: "%Y-%m-%d_%H%M".
strftime_to_the_minute(now) ==
    year_digits \o <<"-">> \o month_digits \o <<"-">> \o day_digits \o <<"_">>
    \o hour_digits \o TwoDigits(now \div 60)

\* datetime.now().strftime("%Y-%m-%d_%H%M%S") at clock reading `now`.
timestamp_str(now) ==
    year_digits \o <<"-">> \o month_digits \o <<"-">> \o day_digits \o <<"_">>
    \o hour_digits \o TwoDigits(now \div 60) \o TwoDigits(now % 60)

\* The save directory before the call: missing, empty, or holding the file an
\* earlier call saved at clock reading 0.
png == <<".","p","n","g">>
SaveDirs ==
    { [exists |-> FALSE, files |-> EmptyDict],
      [exists |-> TRUE, files |-> EmptyDict],
      [exists |-> TRUE, files |-> ((timestamp_str(0) \o png) :> "Z")] }

NoResult == [kind |-> "none"]
NoReturn == [kind |-> "none"]

CallIdle ==
    /\ pc = "idle"
    /\ positive_prompt = None /\ negative_prompt = None
    /\ prompt_id = None
    /\ pollLog = <<>>
    /\ result = NoResult
    /\ output_data = NoResult
    /\ outputFs = EmptyDict
    /\ source = NoResult
    /\ image_bytes = None
    /\ full_path = <<>>
    /\ effects = <<>>
    /\ ret = NoReturn

\* The state once the module is imported (lines 15-19, 60-77, 112-141).
ModuleLoaded(env) ==
    /\ host = env.COMFY_URL
    /\ override_host = IF env.COMFY_URL_EXTERNAL = None THEN host
                       ELSE env.COMFY_URL_EXTERNAL
    /\ workflow = env.COMFY_WORKFLOW_JSON_FILE
    /\ workflow_data = IF workflow = None THEN NoWorkflow ELSE LoadWorkflow(workflow)
    /\ prompt_template = IF workflow = None THEN EmptyDict
                         ELSE workflow_to_api_format(workflow_data)
    /\ pos_prompt_node_id = ModulePosPromptNodeId(env, workflow_data)
    /\ neg_prompt_node_id = ModuleNegPromptNodeId(env, workflow_data)
    /\ output_node_id = ModuleOutputNodeId(env, workflow_data)
    /\ output_mode = env.OUTPUT_MODE

\* The location functions not applied.
NotLocated == [called |-> FALSE]

LocIdle ==
    /\ locConfig = EmptyDict
    /\ locTemplate = EmptyDict
    /\ locBase = <<>>
    /\ locFs = EmptyDict
    /\ locClient = NotLocated
    /\ locLegacy = NotLocated

\* The functions of workflow.py not applied.
NotApplied == [op |-> "none"]

WfIdle ==
    /\ wfDoc = NoWorkflow
    /\ wfOut = NotApplied

\* The invocations of generate_image, by number.
Callers == 1..MaxCalls

\* No request sent by an invocation.
NotSubmitted == [sent |-> FALSE]

\* An invocation that has not been made.
NotCalled ==
    [pc |-> "idle", positive_prompt |-> None, negative_prompt |-> None,
     submitted |-> NotSubmitted, ret |-> NoReturn, alone |-> TRUE]

RaceIdle == calls = [c \in Callers |-> NotCalled]

Init ==
    /\ \E env \in Environments : ModuleLoaded(env)
    /\ server = "not_started"
    /\ CallIdle
    /\ saveDir \in SaveDirs
    /\ saveDir0 = saveDir
    /\ clock = 0
    /\ LocIdle
    /\ WfIdle
    /\ RaceIdle

\* ------------------------------------------------------------ run_server
StartupErrors ==
    (IF host = None THEN <<"- COMFY_URL environment variable not set">> ELSE <<>>)
    \o (IF workflow = None
        THEN <<"- COMFY_WORKFLOW_JSON_FILE environment variable not set">> ELSE <<>>)
    \o (IF pos_prompt_node_id = None
        THEN <<"- Could not auto-discover positive prompt node.">> ELSE <<>>)
    \o (IF output_node_id = None
        THEN <<"- Could not auto-discover output node.">> ELSE <<>>)

\* run_server(): return the error report, or mcp.run().
RunServer ==
    /\ server = "not_started"
    /\ pc = "idle"
    /\ server' = IF StartupErrors # <<>> THEN "refused" ELSE "running"
    /\ UNCHANGED <<locVars, wfVars, raceVars>>
    /\ UNCHANGED <<moduleVars, prompt_template, callVars, saveDir, saveDir0, clock>>

\* ---------------------------------------------------------- return values
Text(msg, detail) == [kind |-> "text", msg |-> msg, detail |-> detail]
Exception(exc, stage) == [kind |-> "exception", exc |-> exc, stage |-> stage]

MsgPosMissing == "Error: Positive prompt node ID not found in workflow template"
MsgSubmit == "Error: Failed to submit workflow to ComfyUI"
MsgPoll == "Failed to generate image. Please check server logs."
MsgStructure == "Error: Invalid output structure from ComfyUI"
MsgDownload == "Error downloading/saving image"
MsgUnexpected == "Unexpected error during image save"

\* -------------------------------------------- generate_image: template-fill
\* The write made on a copy: the shared template stays as it was.
SetTextOnCopy(template, node, text) == template

\* prompt_template[node]["inputs"]["text"] = text
SetText(template, node, text) ==
    [template EXCEPT ![node].inputs = ("text" :> Str(text)) @@ @]

\* The negative-prompt write without the test of `negative_prompt`.
FillNegativeUnchecked(template, neg_id, neg) ==
    IF neg_id # None
    THEN IF neg_id \in DOMAIN template THEN SetText(template, neg_id, neg) ELSE template
    ELSE template

\* Lines 333-341: the negative prompt, when a node is configured for it and
\* exists in the template.
FillNegative(template, neg_id, neg) ==
    IF neg_id # None /\ neg # ""
    THEN IF neg_id \in DOMAIN template THEN SetText(template, neg_id, neg) ELSE template
    ELSE template

NegativeWritten(template, neg_id, neg) ==
    neg_id # None /\ neg # "" /\ neg_id \in DOMAIN template

Prompts == {"cat"}
NegativePrompts == {"", "ugly"}

\* A call of generate_image, by the MCP server once it runs or by a script
\* that imported the module (sample/comfy-test.py), up to submit_workflow.
GenerateImage ==
    /\ pc = "idle"
    /\ server \in {"running", "not_started"}
    /\ \E pos \in Prompts, neg \in NegativePrompts :
        /\ positive_prompt' = pos
        /\ negative_prompt' = neg
        /\ IF workflow = None
           THEN \* prompt_template is None: the `in` test raises TypeError
                /\ ret' = Exception("TypeError", "template-fill")
                /\ pc' = "done"
                /\ UNCHANGED <<prompt_template, effects>>
           ELSE IF pos_prompt_node_id \in DOMAIN prompt_template
           THEN /\ prompt_template' =
                       FillNegative(SetText(prompt_template, pos_prompt_node_id, pos),
                                    neg_prompt_node_id, neg)
                /\ effects' = <<"fill_pos">> \o
                       (IF NegativeWritten(prompt_template, neg_prompt_node_id, neg)
                        THEN <<"fill_neg">> ELSE <<>>)
                /\ pc' = "submit"
                /\ UNCHANGED ret
           ELSE /\ ret' = Text(MsgPosMissing, pos_prompt_node_id)
                /\ pc' = "done"
                /\ UNCHANGED <<prompt_template, effects>>
    /\ saveDir0' = saveDir
    /\ UNCHANGED <<locVars, wfVars, raceVars>>
    /\ UNCHANGED <<moduleVars, server, prompt_id, pollLog, result, output_data, outputFs, source,
                   image_bytes, full_path, saveDir, clock>>

\* --------------------------------------------------------- submit_workflow
\* The backend's answers to POST /prompt.
SubmitResponses ==
    { [status |-> 200, body |-> [prompt_id |-> "job1"]],
      [status |-> 200, body |-> [node_errors |-> "none"]],
      [status |-> 204, body |-> EmptyDict],
      [status |-> 400, body |-> [node_errors |-> "invalid prompt"]] }

Value(v) == [kind |-> "value", val |-> v]
Raise(exc) == [kind |-> "raise", exc |-> exc]

\* urllib.request.urlopen: a URL without a scheme is a ValueError, a status
\* outside 200..299 is raised as HTTPError by the default opener.
urlopen(base, resp) ==
    IF base = None THEN Raise("ValueError")
    ELSE IF resp.status < 200 \/ resp.status > 299 THEN Raise("HTTPError")
    ELSE Value(resp)

submit_workflow(resp) ==
    LET r == urlopen(host, resp) IN
    IF r.kind = "raise" THEN r
    ELSE IF resp.status # 200 THEN Value(None)
    ELSE Value(Get(resp.body, "prompt_id", None))

\* Lines 343-346.
Submit ==
    /\ pc = "submit"
    /\ \E resp \in SubmitResponses :
        LET r == submit_workflow(resp) IN
        /\ effects' = IF host = None THEN effects   \* no request leaves the process
                       ELSE Append(effects, "submit")
        /\ IF r.kind = "raise"
           THEN /\ ret' = Exception(r.exc, "submit")
                /\ pc' = "done"
                /\ UNCHANGED prompt_id
           ELSE /\ prompt_id' = r.val
                /\ IF r.val = None \/ r.val = ""
                   THEN ret' = Text(MsgSubmit, "") /\ pc' = "done"
                   ELSE pc' = "poll" /\ UNCHANGED ret
    /\ UNCHANGED <<locVars, wfVars, raceVars>>
    /\ UNCHANGED <<moduleVars, prompt_template, server, positive_prompt, negative_prompt,
                   pollLog, result, output_data, outputFs, source, image_bytes, full_path,
                   saveDir, saveDir0, clock>>

\* ----------------------------------------------------- poll_for_completion
\* range(max_attempts + 1): one query too many.
max_attempts_plus_one == MaxAttempts + 1

max_attempts == MaxAttempts

\* The image descriptor of a job's output: the (key, value) pairs of the JSON
\* object {"filename": "a 1.png", "subfolder": "s/t", "type": "output"}.
descriptor ==
    << << <<"f","i","l","e","n","a","m","e">>, <<"a"," ","1",".","p","n","g">> >>,
       << <<"s","u","b","f","o","l","d","e","r">>, <<"s","/","t">> >>,
       << <<"t","y","p","e">>, <<"o","u","t","p","u","t">> >> >>

List(items) == [kind |-> "list", items |-> items]

\* The "outputs" mappings a completed job may carry.
OutputMaps ==
    { ("3" :> [images |-> List(<<descriptor>>)]),
      ("9" :> [images |-> List(<<descriptor>>)]),
      ("9" :> [images |-> List(<<>>)]),
      ("9" :> [images |-> Null]),
      EmptyDict }

\* The history entries of a job: complete, incomplete, or without its fields.
CompleteEntries ==
    { [status |-> [completed |-> TRUE], outputs |-> o] : o \in OutputMaps }
    \cup { [status |-> [completed |-> TRUE]] }
IncompleteEntry == [status |-> [completed |-> FALSE], outputs |-> EmptyDict]
MalformedEntry == [outputs |-> EmptyDict]

\* The backend's answers to GET /history/<id>.
StatusResponses(id) ==
    { [status |-> 204, body |-> EmptyDict],
      [status |-> 500, body |-> EmptyDict],
      [status |-> 200, body |-> EmptyDict],
      [status |-> 200, body |-> (id :> IncompleteEntry)],
      [status |-> 200, body |-> (id :> MalformedEntry)] }
    \cup { [status |-> 200, body |-> (id :> e)] : e \in CompleteEntries }

\* The iteration without the test of the completion flag.
PollIterationIgnoresFlag(id, resp) ==
    LET r == IF host = None THEN [kind |-> "raise", exc |-> "ValueError"]
             ELSE IF resp.status < 200 \/ resp.status > 299
                  THEN [kind |-> "raise", exc |-> "HTTPError"]
                  ELSE [kind |-> "value", val |-> resp]
    IN
    IF r.kind = "raise" THEN r
    ELSE IF resp.status = 200 /\ id \in DOMAIN resp.body
    THEN LET entry == resp.body[id] IN
         IF "status" \notin DOMAIN entry \/ "completed" \notin DOMAIN entry.status
         THEN [kind |-> "raise", exc |-> "KeyError"]
         ELSE [kind |-> "return", val |-> entry]
    ELSE [kind |-> "value", val |-> None]

\* One iteration of the loop, up to time.sleep: the entry returned, the
\* exception raised, or Value(None) to sleep and go on.
PollIteration(id, resp) ==
    LET r == urlopen(host, resp) IN
    IF r.kind = "raise" THEN r
    ELSE IF resp.status = 200 /\ id \in DOMAIN resp.body
    THEN LET entry == resp.body[id] IN
         IF "status" \notin DOMAIN entry \/ "completed" \notin DOMAIN entry.status
         THEN Raise("KeyError")
         ELSE IF entry.status.completed THEN [kind |-> "return", val |-> entry]
         ELSE Value(None)
    ELSE Value(None)

\* Lines 353-357: result["outputs"][output_node_id]["images"][0]
ExtractOutputData(res, node_id) ==
    IF "outputs" \notin DOMAIN res THEN Raise("KeyError")
    ELSE IF node_id \notin DOMAIN res.outputs THEN Raise("KeyError")
    ELSE LET images == res.outputs[node_id].images IN
         IF images.kind = "null" THEN Raise("TypeError")
         ELSE IF images.items = <<>> THEN Raise("IndexError")
         ELSE Value(images.items[1])

\* generate_image from the poll's result to the first access of the output
\* directory (lines 350-357 and 245-246).
AfterPoll(res) ==
    LET od == ExtractOutputData(res, output_node_id) IN
    IF od.kind = "raise"
    THEN /\ ret' = IF od.exc \in {"KeyError", "IndexError"}
                   THEN Text(MsgStructure, od.exc)
                   ELSE Exception(od.exc, "locate-output")
         /\ pc' = "done"
         /\ UNCHANGED output_data
    ELSE /\ output_data' = od.val
         /\ IF output_node_id \notin DOMAIN prompt_template
            THEN ret' = Text(MsgDownload, "SaveImage node not found in workflow")
                 /\ pc' = "done"
            ELSE pc' = "locate" /\ UNCHANGED ret

\* One status query of poll_for_completion; the last one allowed ends the
\* loop, and generate_image goes on from the poll's result.
Poll ==
    /\ pc = "poll"
    /\ Len(pollLog) < max_attempts
    /\ \E resp \in StatusResponses(prompt_id) :
        LET r == PollIteration(prompt_id, resp) IN
        /\ pollLog' = Append(pollLog, resp)
        /\ effects' = Append(effects, "query")
        /\ CASE r.kind = "raise" ->
                  /\ ret' = Exception(r.exc, "poll")
                  /\ pc' = "done"
                  /\ UNCHANGED <<result, output_data>>
             [] r.kind = "return" ->
                  /\ result' = r.val
                  /\ AfterPoll(r.val)
             [] OTHER ->
                  IF Len(pollLog') < max_attempts
                  THEN UNCHANGED <<pc, ret, result, output_data>>
                  ELSE /\ ret' = Text(MsgPoll, "")
                       /\ pc' = "done"
                       /\ UNCHANGED <<result, output_data>>
    /\ UNCHANGED <<locVars, wfVars, raceVars>>
    /\ UNCHANGED <<moduleVars, prompt_template, server, positive_prompt, negative_prompt,
                   prompt_id, outputFs, source, image_bytes, full_path, saveDir, saveDir0, clock>>

\* ------------------------------------------------- download_and_save_image
x_png == <<"x",".","p","n","g">>
y_PNG == <<"y",".","P","N","G">>
n_txt == <<"n",".","t","x","t">>
\* The file the backend wrote for the job: the descriptor's filename.
a_1_png == <<"a"," ","1",".","p","n","g">>

dir_o == Resolve(<<"/","o">>)
dir_o_s_t == Resolve(<<"/","o","/","s","/","t">>)

\* The states of the backend's output storage a call may meet.
FileSystems ==
    { EmptyDict,
      (dir_o :> <<Entry(x_png, "file", 1, "A")>>),
      (dir_o :> <<>>) @@ (dir_o_s_t :> <<>>),
      (dir_o :> <<>>) @@ (dir_o_s_t :> <<Entry(n_txt, "file", 2, "T")>>),
      (dir_o :> <<>>) @@ (dir_o_s_t :> <<Entry(x_png, "file", 1, "A")>>),
      (dir_o :> <<>>) @@ (dir_o_s_t :> <<Entry(x_png, "file", 1, "A"),
                                       Entry(y_PNG, "file", 2, "B")>>),
      (dir_o :> <<>>) @@ (dir_o_s_t :> <<Entry(a_1_png, "file", 1, "J")>>),
      (dir_o :> <<>>) @@ (dir_o_s_t :> <<Entry(a_1_png, "file", 1, "J"),
                                         Entry(y_PNG, "file", 2, "B")>>) }

\* The position of the last "." of s, 0 when it has none.
RECURSIVE LastDot(_, _)
LastDot(s, k) ==
    IF k = 0 THEN 0
    ELSE IF s[k] = "." THEN k
    ELSE LastDot(s, k - 1)

\* os.path.splitext(name)[1] for a name without separators: the part from
\* the last dot, unless only dots precede it.
SplitExt(name) ==
    LET dotIndex == LastDot(name, Len(name)) IN
    IF dotIndex > 0 /\ \E i \in 1..(dotIndex - 1) : name[i] # "."
    THEN SubSeq(name, dotIndex, Len(name))
    ELSE <<>>

\* Lines 248-251: find_latest_image_in_comfy_output on the output node.
Locate ==
    /\ pc = "locate"
    /\ \E fs \in FileSystems :
        LET found == find_latest_image_in_comfy_output(prompt_template[output_node_id], fs) IN
        /\ outputFs' = fs
        /\ source' = found
        /\ effects' = effects \o
               (IF Resolve(LegacySearchDir(prompt_template[output_node_id])) \in DOMAIN fs
                THEN <<"exists", "listdir">> ELSE <<"exists">>)
        /\ IF found.ok
           THEN pc' = "read" /\ UNCHANGED ret
           ELSE ret' = Text(MsgDownload, found.msg) /\ pc' = "done"
    /\ UNCHANGED <<locVars, wfVars, raceVars>>
    /\ UNCHANGED <<moduleVars, prompt_template, server, positive_prompt, negative_prompt,
                   prompt_id, pollLog, result, output_data, image_bytes, full_path,
                   saveDir, saveDir0, clock>>

\* Lines 255-257: read the located file; it may be gone or unreadable by now.
ReadSource ==
    /\ pc = "read"
    /\ effects' = Append(effects, "read")
    /\ \E ok \in BOOLEAN :
        IF ok
        THEN image_bytes' = source.file.data /\ pc' = "makedirs" /\ UNCHANGED ret
        ELSE /\ ret' = Text(MsgUnexpected, "FileNotFoundError")
             /\ pc' = "done"
             /\ UNCHANGED image_bytes
    /\ UNCHANGED <<locVars, wfVars, raceVars>>
    /\ UNCHANGED <<moduleVars, prompt_template, server, positive_prompt, negative_prompt,
                   prompt_id, pollLog, result, output_data, outputFs, source, full_path,
                   saveDir, saveDir0, clock>>

\* Line 260: os.makedirs(save_path, exist_ok=True)
Makedirs ==
    /\ pc = "makedirs"
    /\ effects' = Append(effects, "makedirs")
    /\ \E ok \in (IF saveDir.exists THEN {TRUE} ELSE BOOLEAN) :
        IF ok
        THEN saveDir' = [saveDir EXCEPT !.exists = TRUE] /\ pc' = "open" /\ UNCHANGED ret
        ELSE /\ ret' = Text(MsgUnexpected, "PermissionError")
             /\ pc' = "done"
             /\ UNCHANGED saveDir
    /\ UNCHANGED <<locVars, wfVars, raceVars>>
    /\ UNCHANGED <<moduleVars, prompt_template, server, positive_prompt, negative_prompt,
                   prompt_id, pollLog, result, output_data, outputFs, source, image_bytes, full_path,
                   saveDir0, clock>>

\* Lines 262-270: the timestamped name, and open(full_path, "wb"), which
\* creates the file or empties the one that has the name.
OpenDest ==
    /\ pc = "open"
    /\ effects' = Append(effects, "open")
    /\ \E now \in clock..MaxClock, ok \in BOOLEAN :
        /\ clock' = now
        /\ full_path' = timestamp_str(now) \o SplitExt(source.file.name)
        /\ IF ok
           THEN /\ saveDir' = [saveDir EXCEPT !.files = (full_path' :> "") @@ @]
                /\ pc' = "write"
                /\ UNCHANGED ret
           ELSE /\ ret' = Text(MsgUnexpected, "PermissionError")
                /\ pc' = "done"
                /\ UNCHANGED saveDir
    /\ UNCHANGED <<locVars, wfVars, raceVars>>
    /\ UNCHANGED <<moduleVars, prompt_template, server, positive_prompt, negative_prompt,
                   prompt_id, pollLog, result, output_data, outputFs, source, image_bytes, saveDir0>>

\* urllib.parse.quote_plus on the characters the model's descriptors use.
QuoteChar(c) ==
    CASE c = " " -> <<"+">>
      [] c = "/" -> <<"%","2","F">>
      [] c = "&" -> <<"%","2","6">>
      [] c = "=" -> <<"%","3","D">>
      [] OTHER -> <<c>>

RECURSIVE quote_plus(_)
quote_plus(str) ==
    IF str = <<>> THEN <<>> ELSE QuoteChar(Head(str)) \o quote_plus(Tail(str))

\* urllib.parse.urlencode(query): "k=v" of the quoted pairs, joined by "&".
RECURSIVE urlencode(_)
urlencode(query) ==
    IF query = <<>> THEN <<>>
    ELSE quote_plus(query[1][1]) \o <<"=">> \o quote_plus(query[1][2])
         \o (IF Len(query) > 1 THEN <<"&">> \o urlencode(Tail(query)) ELSE <<>>)

\* f"{server}/view?{url_values}": the server as given, and what follows it.
get_file_url(base, url_values) ==
    [kind |-> "url", server |-> base,
     rest |-> <<"/","v","i","e","w","?">> \o url_values]

\* The return without the .lower() of the output mode.
SuccessValueCaseSensitive ==
    IF output_mode # NoneChars /\ output_mode = <<"u","r","l">>
    THEN get_file_url(override_host, urlencode(output_data))
    ELSE [kind |-> "image", data |-> image_bytes, format |-> "png"]

\* Lines 367-372: the value generate_image returns on success.
SuccessValue ==
    IF output_mode # NoneChars /\ Lower(output_mode) = <<"u","r","l">>
    THEN get_file_url(override_host, urlencode(output_data))
    ELSE [kind |-> "image", data |-> image_bytes, format |-> "png"]

\* Lines 270-275 and 367-372: f.write(image_bytes) and the return; a write
\* that fails (disk full) leaves the file empty or with part of the bytes.
WriteDest ==
    /\ pc = "write"
    /\ effects' = Append(effects, "write")
    /\ \E content \in {image_bytes, "", "partial"} :
        /\ saveDir' = [saveDir EXCEPT !.files[full_path] = content]
        /\ ret' = IF content = image_bytes THEN SuccessValue
                  ELSE Text(MsgUnexpected, "OSError")
    /\ pc' = "done"
    /\ UNCHANGED <<locVars, wfVars, raceVars>>
    /\ UNCHANGED <<moduleVars, prompt_template, server, positive_prompt, negative_prompt,
                   prompt_id, pollLog, result, output_data, outputFs, source, image_bytes, full_path,
                   saveDir0, clock>>

Next ==
    \/ RunServer
    \/ GenerateImage
    \/ Submit
    \/ Poll
    \/ Locate
    \/ ReadSource
    \/ Makedirs
    \/ OpenDest
    \/ WriteDest

Spec == Init /\ [][Next]_vars

\* ======================================================================
\* The artifact-location functions on their own
\* ======================================================================
\* The environment of the generate_image machine while only the location
\* functions are applied.
DefaultEnv ==
    [COMFY_URL |-> "http://comfy", COMFY_URL_EXTERNAL |-> None,
     COMFY_WORKFLOW_JSON_FILE |-> "titled.json",
     PROMPT_NODE_ID |-> None, POS_PROMPT_NODE_ID |-> None, NEG_PROMPT_NODE_ID |-> None,
     OUTPUT_NODE_ID |-> None, OUTPUT_MODE |-> NoneChars]

MainIdle ==
    /\ ModuleLoaded(DefaultEnv)
    /\ server = "not_started"
    /\ CallIdle
    /\ saveDir = [exists |-> FALSE, files |-> EmptyDict]
    /\ saveDir0 = saveDir
    /\ clock = 0

d_png == <<"d",".","p","n","g">>
time_year == <<"[","t","i","m","e","(","%","Y",")","]">>

\* filename_prefix and output_path values of the output node.
LocPrefixes == { <<"i">>, <<"a","/","i">>, <<"a","/","b","/","i">>, <<"a","/">> }
LocOutputPaths ==
    { Str(<<>>), Str(<<"b">>), Str(time_year), Ref("5", 0), Ref("5", 1), Ref("8", 0) }

OutputNodeConfigs ==
    { [class_type |-> ct, inputs |-> [filename_prefix |-> Str(p), output_path |-> op]] :
        ct \in {"SaveImage", "Image Save"}, p \in LocPrefixes, op \in LocOutputPaths }
    \cup { [class_type |-> ct, inputs |-> EmptyDict] : ct \in {"SaveImage", "Image Save"} }

LocTemplate ==
    ("5" :> [class_type |-> "Text String",
             inputs |-> [text |-> Str(<<"a">>), text_b |-> Str(<<"b">>)]])

LocDirs ==
    { Resolve(<<"/","o">>), Resolve(<<"/","o","/","a">>), Resolve(<<"/","o","/","b">>),
      Resolve(<<"/","o","/","a","/","b">>), Resolve(<<"/","o","/">> \o year_digits) }

\* Directory entries: image files in either case, a text file, and a
\* directory whose name ends like an image's.
LocEntries ==
    { Entry(n, "file", t, n) : n \in {x_png, y_PNG, n_txt}, t \in {1, 2} }
    \cup { Entry(d_png, "dir", t, d_png) : t \in {1, 2} }

Listings ==
    { l \in UNION { [1..k -> LocEntries] : k \in 0..MaxFiles } :
        \A i, j \in 1..Len(l) : i # j => l[i].name # l[j].name }

LocFileSystems == { EmptyDict } \cup { (d :> l) : d \in LocDirs, l \in Listings }

LocInit ==
    /\ MainIdle
    /\ locConfig \in OutputNodeConfigs
    /\ locTemplate = LocTemplate
    /\ locBase \in { <<"/","o">>, <<>> }
    /\ locFs \in LocFileSystems
    /\ locClient = NotLocated
    /\ locLegacy = NotLocated
    /\ WfIdle
    /\ RaceIdle

\* ComfyClient.find_latest_image_in_output(output_node_config, workflow_template)
LocateClient ==
    /\ ~locClient.called
    /\ locClient' =
          [called |-> TRUE,
           search |-> ClientSearchDir(locBase, locConfig, locTemplate),
           found |-> find_latest_image_in_output(locBase, locConfig, locTemplate, locFs)]
    /\ UNCHANGED <<mainVars, wfVars, raceVars, locConfig, locTemplate, locBase, locFs, locLegacy>>

\* find_latest_image_in_comfy_output(output_node_config)
LocateLegacy ==
    /\ ~locLegacy.called
    /\ locLegacy' =
          [called |-> TRUE,
           search |-> [ok |-> TRUE, dir |-> LegacySearchDir(locConfig)],
           found |-> find_latest_image_in_comfy_output(locConfig, locFs)]
    /\ UNCHANGED <<mainVars, wfVars, raceVars, locConfig, locTemplate, locBase, locFs, locClient>>

LocNext == LocateClient \/ LocateLegacy

LocateSpec == LocInit /\ [][LocNext]_vars

\* ======================================================================
\* workflow.py: the normalizer, node discovery and reference resolution on
\* their own
\* ======================================================================
kw_path == <<"p","a","t","h">>
kw_savepath == <<"s","a","v","e","p","a","t","h">>

\* An override that `if override:` takes: neither None nor the empty string.
Truthy(override) == override # None /\ override # ""

\* discover_nodes with the override dropped when discovery finds a node.
discover_nodes_discovery_first(wd, o) ==
    LET pick(found, override) == IF found # None THEN found
                                 ELSE IF Truthy(override) THEN override ELSE found
    IN
    [pos |-> pick(auto_discover_node_id(wd, {kw_positive}, "CLIPTextEncode"), o.pos),
     neg |-> pick(auto_discover_node_id(wd, {kw_negative}, "CLIPTextEncode"), o.neg),
     filepath |-> pick(auto_discover_node_id(wd, {kw_path, kw_savepath}, "Text String"),
                       o.filepath),
     output |-> pick(auto_discover_node_id(wd, {kw_save, kw_saveimage}, "Image Save"),
                     o.output)]

\* WorkflowManager.discover_nodes: discovery for the four roles, then the
\* overrides that are given.
discover_nodes(wd, o) ==
    LET pos_prompt_id == auto_discover_node_id(wd, {kw_positive}, "CLIPTextEncode")
        neg_prompt_id == auto_discover_node_id(wd, {kw_negative}, "CLIPTextEncode")
        filepath_id == auto_discover_node_id(wd, {kw_path, kw_savepath}, "Text String")
        output_id == auto_discover_node_id(wd, {kw_save, kw_saveimage}, "Image Save")
    IN
    [pos |-> IF Truthy(o.pos) THEN o.pos ELSE pos_prompt_id,
     neg |-> IF Truthy(o.neg) THEN o.neg ELSE neg_prompt_id,
     filepath |-> IF Truthy(o.filepath) THEN o.filepath ELSE filepath_id,
     output |-> IF Truthy(o.output) THEN o.output ELSE output_id]

\* ------------------------------------------------------------- documents
\* The k-th input of a node is named input_names[k].
input_names == <<"seed", "steps", "cfg", "model">>

\* Inputs with and without the "widget" key, without a link and with the
\* link ids 7 and 8.
InputShapes == { Inp(n, w, l) : n \in { input_names[k] : k \in 1..Len(input_names) },
                                w \in BOOLEAN, l \in {NoLink, 7, 8} }

InputLists ==
    UNION { { ins \in [1..n -> InputShapes] : \A k \in 1..n : ins[k].name = input_names[k] } :
            n \in 0..MaxInputs }

\* The node the documents vary: without "widgets_values", or with a sequence
\* of up to two values.
SamplerNodes ==
    { [id |-> 1, type |-> "KSampler", title |-> <<>>, hasWidgets |-> FALSE,
       widgets_values |-> <<>>, inputs |-> ins] : ins \in InputLists }
    \cup
    { [id |-> 1, type |-> "KSampler", title |-> <<>>, hasWidgets |-> TRUE,
       widgets_values |-> wv, inputs |-> ins] :
         wv \in { <<>>, <<Str("v1")>>, <<Str("v1"), Str("v2")>> }, ins \in InputLists }

\* A second node with one widget input and its own value.
EncodeNode ==
    [id |-> 2, type |-> "CLIPTextEncode", title |-> <<"P","o","s","i","t","i","v","e">>,
     hasWidgets |-> TRUE, widgets_values |-> <<Str("w1")>>,
     inputs |-> <<Inp("text", TRUE, NoLink)>>]

\* The link lists: none, one record, and records of which two have the id 7.
LinkLists ==
    { <<>>,
      << <<7, 2, 0>> >>,
      << <<8, 1, 1>>, <<7, 2, 0>>, <<7, 1, 3>> >> }

\* Graph-form documents for the normalizer.
NormDocs ==
    { [form |-> "graph", nodes |-> ns, links |-> ls] :
        ns \in UNION { { <<n>>, <<n, EncodeNode>>, <<EncodeNode, n>> } : n \in SamplerNodes },
        ls \in LinkLists }

\* Titles and types of the nodes discovery looks at; the node at position k
\* of a document has the id node_ids[k].
DiscTitles ==
    { <<>>,
      <<"P","o","s","i","t","i","v","e">>,
      <<"S","A","V","E">> }
DiscTypes == { "CLIPTextEncode", "SaveImage", "Image Save" }
node_ids == <<12, 5, 9, 3>>

DiscNodeLists ==
    UNION { { ns \in [1..n -> [id : { node_ids[k] : k \in 1..Len(node_ids) },
                               type : DiscTypes, title : DiscTitles,
                               hasWidgets : {FALSE}, widgets_values : {<<>>},
                               inputs : {<<>>}]] :
                \A k \in 1..n : ns[k].id = node_ids[k] } :
            n \in 0..MaxNodes }

DiscDocs == { [form |-> "graph", nodes |-> ns, links |-> <<>>] : ns \in DiscNodeLists }

WfDocs == NormDocs \cup DiscDocs \cup { FlatDoc, AsDocument(EmptyDict), NoWorkflow }

\* Keyword lists and required types discovery is asked for.
KeywordLists == { {kw_positive}, {kw_save, kw_saveimage} }
RequiredTypes == { None, "CLIPTextEncode", "SaveImage" }

\* Override ids given to discover_nodes: none, the empty string, an id.
Overrides ==
    [pos : {None, "", "12"}, neg : {None, "12"}, filepath : {None, "12"},
     output : {None, "", "12"}]

\* The node-id variables of the environment the module reads.
RoleEnvironments ==
    [PROMPT_NODE_ID : {None, "", "6"}, POS_PROMPT_NODE_ID : {None, "", "8"},
     NEG_PROMPT_NODE_ID : {None, "", "7"}, OUTPUT_NODE_ID : {None, "9"}]

\* from_environment with POS_PROMPT_NODE_ID looked at first.
from_environment_pos_first(env) ==
    [pos_prompt_node_id |-> IF Truthy(env.POS_PROMPT_NODE_ID) THEN env.POS_PROMPT_NODE_ID
                            ELSE env.PROMPT_NODE_ID,
     neg_prompt_node_id |-> env.NEG_PROMPT_NODE_ID,
     output_node_id |-> env.OUTPUT_NODE_ID]

\* config.py: the node ids of ComfyConfig.from_environment(); os.environ.get
\* gives None for a variable that is not set.
from_environment(env) ==
    [pos_prompt_node_id |-> IF Truthy(env.PROMPT_NODE_ID) THEN env.PROMPT_NODE_ID
                            ELSE env.POS_PROMPT_NODE_ID,
     neg_prompt_node_id |-> env.NEG_PROMPT_NODE_ID,
     output_node_id |-> env.OUTPUT_NODE_ID]

\* A flat workflow with a "Text String" node (no text_c) and another node.
ResolveTemplate ==
    ("5" :> [class_type |-> "Text String",
             inputs |-> [text |-> Str(<<"a">>), text_b |-> Str(<<"b">>),
                         text_d |-> Ref("8", 0)]])
    @@ ("8" :> [class_type |-> "CLIPTextEncode", inputs |-> [text |-> Str(<<"c">>)]])

\* Output indexes of a reference, in and out of the four slots.
SlotIndexes == { 0 - 5, 0 - 1, 0, 1, 2, 3, 4 }

InputValues ==
    { Ref(n, i) : n \in {"5", "8", "99"}, i \in SlotIndexes }
    \cup { Str(<<"x">>), Str(<<>>), Null, Num(5) }

WfInit ==
    /\ MainIdle
    /\ LocIdle
    /\ wfDoc \in WfDocs
    /\ wfOut = NotApplied
    /\ RaceIdle

\* workflow_to_api_format(wfDoc)
Normalize ==
    /\ wfOut = NotApplied
    /\ wfOut' = [op |-> "workflow_to_api_format", times |-> 1, arg |-> wfDoc,
                 out |-> workflow_to_api_format(wfDoc)]
    /\ UNCHANGED <<mainVars, locVars, wfDoc, raceVars>>

\* workflow_to_api_format on the mapping the first application returned.
NormalizeAgain ==
    /\ wfOut.op = "workflow_to_api_format"
    /\ wfOut.times = 1
    /\ "kind" \notin DOMAIN wfOut.out
    /\ wfOut' = [op |-> "workflow_to_api_format", times |-> 2, arg |-> AsDocument(wfOut.out),
                 out |-> workflow_to_api_format(AsDocument(wfOut.out))]
    /\ UNCHANGED <<mainVars, locVars, wfDoc, raceVars>>

\* auto_discover_node_id(wfDoc, title_keywords, class_type)
Discover ==
    /\ wfOut = NotApplied
    /\ \E kws \in KeywordLists, ct \in RequiredTypes :
          wfOut' = [op |-> "auto_discover_node_id", title_keywords |-> kws, class_type |-> ct,
                    out |-> auto_discover_node_id(wfDoc, kws, ct)]
    /\ UNCHANGED <<mainVars, locVars, wfDoc, raceVars>>

\* WorkflowManager.discover_nodes(...) on the loaded document wfDoc
DiscoverNodes ==
    /\ wfOut = NotApplied
    /\ \E o \in Overrides :
          wfOut' = [op |-> "discover_nodes", overrides |-> o, out |-> discover_nodes(wfDoc, o)]
    /\ UNCHANGED <<mainVars, locVars, wfDoc, raceVars>>

\* __init__.py lines 112-136 on the loaded document wfDoc
ModuleRoles ==
    /\ wfOut = NotApplied
    /\ \E env \in RoleEnvironments :
          wfOut' = [op |-> "module", env |-> env,
                    out |-> [pos |-> ModulePosPromptNodeId(env, wfDoc),
                             neg |-> ModuleNegPromptNodeId(env, wfDoc),
                             output |-> ModuleOutputNodeId(env, wfDoc)]]
    /\ UNCHANGED <<mainVars, locVars, wfDoc, raceVars>>

\* ComfyConfig.from_environment()
FromEnvironment ==
    /\ wfOut = NotApplied
    /\ \E env \in RoleEnvironments :
          wfOut' = [op |-> "from_environment", env |-> env, out |-> from_environment(env)]
    /\ UNCHANGED <<mainVars, locVars, wfDoc, raceVars>>

\* resolve_node_input(input_value, workflow_template)
ResolveInput ==
    /\ wfOut = NotApplied
    /\ \E iv \in InputValues :
          wfOut' = [op |-> "resolve_node_input", input_value |-> iv,
                    workflow_template |-> ResolveTemplate,
                    out |-> resolve_node_input(iv, ResolveTemplate)]
    /\ UNCHANGED <<mainVars, locVars, wfDoc, raceVars>>

WfNext ==
    \/ Normalize
    \/ NormalizeAgain
    \/ Discover
    \/ DiscoverNodes
    \/ ModuleRoles
    \/ FromEnvironment
    \/ ResolveInput

WorkflowSpec == WfInit /\ [][WfNext]_vars

\* ======================================================================
\* workflow.py: evaluate_time_tokens on its own
\* ======================================================================
\* The pieces of the path strings: a directory, a whole token, the opening
\* of a token, a format with the closing, the closing alone, and text that
\* ends in a parenthesis.
PathPieces ==
    { <<"a","/">>,
      <<"[","t","i","m","e","(","%","Y",")","]">>,
      <<"[","t","i","m","e","(">>,
      <<"%","m",")","]">>,
      <<")","]">>,
      <<"x",")">> }

RECURSIVE Concat(_)
Concat(pieces) == IF pieces = <<>> THEN <<>> ELSE Head(pieces) \o Concat(Tail(pieces))

PathStrings == { Concat(ps) : ps \in UNION { [1..n -> PathPieces] : n \in 0..MaxPieces } }

TokenInit ==
    /\ MainIdle
    /\ LocIdle
    /\ WfIdle
    /\ RaceIdle

\* evaluate_time_tokens(path_str)
ExpandTokens ==
    /\ wfOut = NotApplied
    /\ \E path \in PathStrings :
          wfOut' = [op |-> "evaluate_time_tokens", path_str |-> Str(path),
                    out |-> evaluate_time_tokens(Str(path))]
    /\ UNCHANGED <<mainVars, locVars, wfDoc, raceVars>>

TokenNext == ExpandTokens

TokenSpec == TokenInit /\ [][TokenNext]_vars

\* ======================================================================
\* Several invocations of generate_image on one loaded module
\* ======================================================================
\* generate_image is a plain function of the module: threads of one process
\* that call it run its statements interleaved, and all of them write to
\* and submit the one module-level prompt_template (lines 60-77).
RaceEnvironments ==
    { env \in Environments :
        /\ env.COMFY_URL = "http://comfy"
        /\ env.COMFY_URL_EXTERNAL = None
        /\ env.OUTPUT_NODE_ID = None
        /\ env.OUTPUT_MODE = NoneChars }

RacePrompts == {"cat", "dog"}

RaceInit ==
    /\ \E env \in RaceEnvironments : ModuleLoaded(env)
    /\ server = "running"
    /\ CallIdle
    /\ saveDir = [exists |-> FALSE, files |-> EmptyDict]
    /\ saveDir0 = saveDir
    /\ clock = 0
    /\ LocIdle
    /\ WfIdle
    /\ RaceIdle

\* Invocation c is entered with its arguments (lines 297-325).
RaceCall(c) ==
    /\ calls[c].pc = "idle"
    /\ \E pos \in RacePrompts, neg \in NegativePrompts :
          \* the invocations entered and not returned
          LET others == { d \in Callers \ {c} : calls[d].pc \notin {"idle", "done"} } IN
          calls' = [d \in Callers |->
                      IF d = c
                      THEN [calls[c] EXCEPT !.pc = "fill_pos", !.positive_prompt = pos,
                                            !.negative_prompt = neg, !.alone = (others = {})]
                      ELSE IF d \in others THEN [calls[d] EXCEPT !.alone = FALSE]
                      ELSE calls[d]]
    /\ UNCHANGED <<mainVars, locVars, wfVars>>

\* Lines 327-331 of invocation c.
RaceFillPositive(c) ==
    /\ calls[c].pc = "fill_pos"
    /\ IF workflow = None
       THEN /\ calls' = [calls EXCEPT ![c].pc = "done",
                                      ![c].ret = Exception("TypeError", "template-fill")]
            /\ UNCHANGED prompt_template
       ELSE IF pos_prompt_node_id \in DOMAIN prompt_template
       THEN /\ prompt_template' =
                   SetText(prompt_template, pos_prompt_node_id, calls[c].positive_prompt)
            /\ calls' = [calls EXCEPT ![c].pc = "fill_neg"]
       ELSE /\ calls' = [calls EXCEPT ![c].pc = "done",
                                      ![c].ret = Text(MsgPosMissing, pos_prompt_node_id)]
            /\ UNCHANGED prompt_template
    /\ UNCHANGED <<moduleVars, server, callVars, saveDir, saveDir0, clock, locVars, wfVars>>

\* Lines 333-341 of invocation c.
RaceFillNegative(c) ==
    /\ calls[c].pc = "fill_neg"
    /\ prompt_template' =
           FillNegative(prompt_template, neg_prompt_node_id, calls[c].negative_prompt)
    /\ calls' = [calls EXCEPT ![c].pc = "submit"]
    /\ UNCHANGED <<moduleVars, server, callVars, saveDir, saveDir0, clock, locVars, wfVars>>

\* Line 344 of invocation c: submit_workflow serialises prompt_template as
\* it stands into the request body.
RaceSubmit(c) ==
    /\ calls[c].pc = "submit"
    /\ calls' = [calls EXCEPT ![c].pc = "poll", ![c].submitted = [sent |-> TRUE, prompt |-> prompt_template]]
    /\ UNCHANGED <<mainVars, locVars, wfVars>>

\* Lines 345-372 of invocation c: the rest of the call, which does not
\* touch prompt_template, up to its return.
RaceReturn(c) ==
    /\ calls[c].pc = "poll"
    /\ calls' = [calls EXCEPT ![c].pc = "done"]
    /\ UNCHANGED <<mainVars, locVars, wfVars>>

RaceNext ==
    \E c \in Callers :
        \/ RaceCall(c)
        \/ RaceFillPositive(c)
        \/ RaceFillNegative(c)
        \/ RaceSubmit(c)
        \/ RaceReturn(c)

RaceSpec == RaceInit /\ [][RaceNext]_vars

\* ======================================================================
\* Properties
\* ======================================================================
Finished == pc = "done"
Succeeded == ret.kind \in {"image", "url"}
\* The process has its backend URL and its workflow file.
Configured == host # None /\ workflow # None

\* What the module loaded, before any call wrote to it.
LoadedTemplate == IF workflow = None THEN EmptyDict ELSE workflow_to_api_format(workflow_data)

Count(seq, x) == Cardinality({ i \in 1..Len(seq) : seq[i] = x })

\* C1: whatever the backend and the file system do (submission rejected or
\* answered with an HTTP error, no job id, poll timeout, malformed status or
\* outputs, missing directory, no image files, write failure), a finished
\* generate_image call of a configured process has returned a value (a
\* message, or the image); it has not raised.
C1_AlwaysReturnsMessage ==
    (Finished /\ Configured) => ret.kind \in {"text", "image", "url"}

\* The stage of each access to the backend and the file system.
StageRank(e) ==
    CASE e \in {"fill_pos", "fill_neg"} -> 1
      [] e = "submit" -> 2
      [] e = "query" -> 3
      [] e \in {"exists", "listdir"} -> 4
      [] e \in {"read", "makedirs", "open", "write"} -> 5

\* The ordering half of C2: stages only in the order template-fill, submit,
\* poll, locate-output, fetch-and-persist; a status query only after a
\* submission returned a job id; the output directory read only after a poll
\* returned a completed payload from which a descriptor was extracted; a file
\* written only after the artifact was located and read.
C2_StageOrder ==
    /\ \A i, j \in 1..Len(effects) : i < j => StageRank(effects[i]) <= StageRank(effects[j])
    /\ Count(effects, "query") > 0 =>
          /\ Count(effects, "submit") = 1
          /\ prompt_id \notin {None, ""}
    /\ Count(effects, "exists") > 0 =>
          /\ result # NoResult
          /\ result.status.completed
          /\ output_data # NoResult
    /\ (Count(effects, "open") > 0 \/ saveDir.files # saveDir0.files) =>
          /\ source # NoResult /\ source.ok
          /\ Count(effects, "read") = 1
          /\ image_bytes = source.file.data

\* C2: the stages occur only in order (C2_StageOrder), and once a stage
\* fails no action of a later stage occurs and the run ends in the failed
\* state with a reason: a finished call that did not succeed returned a
\* message.
C2_OrderedAndFailsWithReason ==
    /\ C2_StageOrder
    /\ (Finished /\ Configured /\ ~Succeeded) => (ret.kind = "text" /\ ret.msg # "")

\* C3: whenever generate_image returns a failure message, the call has
\* created or modified no file in the save directory.
C3_FailureLeavesNoFile ==
    (Finished /\ ret.kind = "text") => saveDir.files = saveDir0.files

\* What a status response says about job id: "complete" (the id is there with
\* its completion flag true), "incomplete", "absent", "malformed" (the id is
\* there without a status or a flag), "unavailable" (a success status other
\* than 200), or "error" (an HTTP error status).
StatusKind(resp, id) ==
    IF resp.status < 200 \/ resp.status > 299 THEN "error"
    ELSE IF resp.status # 200 THEN "unavailable"
    ELSE IF id \notin DOMAIN resp.body THEN "absent"
    ELSE IF "status" \notin DOMAIN resp.body[id] THEN "malformed"
    ELSE IF "completed" \notin DOMAIN resp.body[id].status THEN "malformed"
    ELSE IF resp.body[id].status.completed THEN "complete"
    ELSE "incomplete"

LogKinds == [i \in 1..Len(pollLog) |-> StatusKind(pollLog[i], prompt_id)]

\* C4: poll_for_completion returns the job's full status payload at the
\* first status query whose response has the job id with its completion flag
\* true, and issues no query after that; a response where the job is absent
\* or incomplete is followed by a retry while attempts remain; with 4
\* attempts allowed, the responses (absent, absent, incomplete, complete)
\* make it return on the 4th query.
C4_ReturnsAtFirstComplete ==
    LET n == Len(pollLog) IN
    /\ result # NoResult =>
          /\ n >= 1
          /\ LogKinds[n] = "complete"
          /\ result = pollLog[n].body[prompt_id]
          /\ pc # "poll"
    /\ \A i \in 1..n : LogKinds[i] = "complete" => (i = n /\ result = pollLog[i].body[prompt_id])
    /\ (n >= 1 /\ n < MaxAttempts /\ LogKinds[n] \in {"absent", "incomplete"}) => pc = "poll"
    /\ (MaxAttempts >= 4 /\ n >= 4
        /\ SubSeq(LogKinds, 1, 4) = <<"absent", "absent", "incomplete", "complete">>)
          => (n = 4 /\ result = pollLog[4].body[prompt_id])

C4_Witness ==
    /\ Len(pollLog) = 4
    /\ LogKinds = <<"absent", "absent", "incomplete", "complete">>
    /\ result = pollLog[4].body[prompt_id]
    /\ pc # "poll"

\* C5: if none of the first max_attempts status queries shows the job
\* complete, poll_for_completion issues exactly max_attempts queries and ends
\* with the timeout outcome (none), which generate_image reports as "Failed
\* to generate image. Please check server logs."; the outcome of a malformed
\* status response is a different one.
C5_TimeoutAfterMaxAttempts ==
    LET n == Len(pollLog)
        retried == \A i \in 1..n : LogKinds[i] \in {"absent", "incomplete", "unavailable"}
    IN
    /\ n <= MaxAttempts
    /\ (retried /\ n < MaxAttempts /\ n >= 1) => (pc = "poll" /\ ret = NoReturn)
    /\ (retried /\ n = MaxAttempts) =>
          (Finished /\ result = NoResult /\ ret = Text(MsgPoll, ""))
    /\ ret = Text(MsgPoll, "") => (n = MaxAttempts /\ retried /\ result = NoResult)
    /\ (n >= 1 /\ LogKinds[n] = "malformed") =>
          (Finished /\ ret # Text(MsgPoll, "") /\ ret = Exception("KeyError", "poll"))

C5_Witness ==
    /\ Len(pollLog) = MaxAttempts
    /\ \A i \in 1..Len(pollLog) : LogKinds[i] \in {"absent", "incomplete"}
    /\ ret = Text(MsgPoll, "")

\* C6: a generate_image call submits the workflow at most once; when the
\* submission response is non-success or carries no job id, submit_workflow
\* yields none rather than raising, and generate_image returns the "failed to
\* submit" message without a status query.
C6_SubmitOnceNoneOnFailure ==
    /\ Count(effects, "submit") <= 1
    /\ (Configured /\ Count(effects, "submit") = 1 /\ prompt_id \in {None, ""}) =>
          /\ ret.kind # "exception"
          /\ ret = Text(MsgSubmit, "")
          /\ Count(effects, "query") = 0

\* C7: when the positive-prompt role or the output role has no usable node
\* id, run_server reports it and does not start the server, and no
\* generate_image call submits a job to the backend.
C7_MissingRoleIsFatal ==
    (pos_prompt_node_id = None \/ output_node_id = None) =>
        /\ server # "running"
        /\ Count(effects, "submit") = 0

\* The conditions of the negative-prompt write.
NegCondition ==
    /\ negative_prompt # ""
    /\ neg_prompt_node_id # None
    /\ neg_prompt_node_id \in DOMAIN LoadedTemplate

\* The template holds the call's negative prompt in the negative node's text.
NegTextWritten ==
    /\ neg_prompt_node_id \in DOMAIN prompt_template
    /\ "text" \in DOMAIN prompt_template[neg_prompt_node_id].inputs
    /\ prompt_template[neg_prompt_node_id].inputs.text = Str(negative_prompt)

\* The call went on to submit_workflow: it is about to be called, it sent the
\* request, or it raised before the request left (no COMFY_URL).
SubmissionReached ==
    \/ pc = "submit"
    \/ Count(effects, "submit") = 1
    \/ (ret.kind = "exception" /\ ret.stage = "submit")

\* C8 as claimed: generate_image writes the negative-prompt node's text input
\* if and only if a non-empty negative prompt was supplied and a negative
\* node id is known and present in the template; when either condition fails
\* the run is not aborted and proceeds to submission.
C8_NegativeIffSupplied ==
    (pc # "idle" /\ workflow # None) =>
        /\ NegCondition <=> NegTextWritten
        /\ ~NegCondition => SubmissionReached

\* C8 as amended: the same, for the calls whose positive-prompt node id is
\* in the template (the others return the positive-prompt error before the
\* negative prompt is looked at); outside the condition no node but the
\* positive one differs from the loaded template.
C8_NegativeIffSuppliedAfterPositive ==
    (pc # "idle" /\ workflow # None /\ pos_prompt_node_id \in DOMAIN LoadedTemplate) =>
        /\ NegCondition <=> NegTextWritten
        /\ SubmissionReached
        /\ ~NegCondition =>
              /\ \A n \in DOMAIN LoadedTemplate \ {pos_prompt_node_id} :
                    prompt_template[n] = LoadedTemplate[n]
              /\ prompt_template[pos_prompt_node_id].inputs.text = Str(positive_prompt)

C8_Witness ==
    /\ pc = "submit"
    /\ NegCondition /\ NegTextWritten
    /\ neg_prompt_node_id # pos_prompt_node_id
    /\ prompt_template[pos_prompt_node_id].inputs.text = Str(positive_prompt)

\* The files of a listing the location functions may return: regular files
\* whose lower-cased name ends in .png, .jpg, .jpeg or .webp.
HasImageExtension(name) ==
    LET low == [i \in 1..Len(name) |-> LowerChar(name[i])] IN
    \E suf \in image_suffixes :
        /\ Len(low) >= Len(suf)
        /\ \A k \in 1..Len(suf) : low[Len(low) - Len(suf) + k] = suf[k]

Candidates(dir, fsys) ==
    { fsys[dir][i] : i \in { j \in 1..Len(fsys[dir]) :
                               /\ fsys[dir][j].kind = "file"
                               /\ HasImageExtension(fsys[dir][j].name) } }

\* One application of a location function that determined a search directory.
LocatedAsClaimed(loc) ==
    (loc.called /\ loc.search.ok) =>
        LET dir == Resolve(loc.search.dir) IN
        IF dir \notin DOMAIN locFs
        THEN loc.found = Raised("ValueError", "ComfyUI output directory not found")
        ELSE IF Candidates(dir, locFs) = {}
        THEN loc.found = Raised("ValueError", "No image files found")
        ELSE /\ loc.found.ok
             /\ loc.found.file \in Candidates(dir, locFs)
             /\ \A c \in Candidates(dir, locFs) : c.ctime <= loc.found.file.ctime

\* C9: artifact location fails with "directory not found" when the search
\* directory does not exist, with "no images found" when it exists but holds
\* no regular file with an image extension (compared case-insensitively), and
\* otherwise returns a candidate whose creation time is maximal.
C9_LocateFailsOrReturnsLatest ==
    LocatedAsClaimed(locClient) /\ LocatedAsClaimed(locLegacy)

C9_Witness ==
    /\ locClient.called /\ locClient.search.ok /\ locClient.found.ok
    /\ locLegacy.called /\ locLegacy.found.ok
    /\ LET l == locFs[Resolve(locClient.search.dir)] IN
       /\ Len(l) = 2
       /\ l[1].ctime < l[2].ctime
       /\ Candidates(Resolve(locClient.search.dir), locFs) = {l[1], l[2]}
       /\ locClient.found.file = l[2]
       /\ l[2].name = y_PNG

\* The search directory the claim gives an output node: for "Image Save",
\* the base joined with output_path, resolved and expanded; for the generic
\* save node, the base joined with the components of filename_prefix before
\* its last separator.
ClaimedSearchDir(base, config) ==
    IF Get(config, "class_type", None) = "Image Save"
    THEN LET output_path ==
                 evaluate_time_tokens(resolve_node_input(
                     Get(config.inputs, "output_path", Str(<<>>)), locTemplate))
         IN [abs |-> TRUE, comps |-> Resolve(base).comps \o Resolve(output_path.val).comps]
    ELSE LET parts == Split(Get(config.inputs, "filename_prefix", Str(<<>>)).val) IN
         [abs |-> TRUE,
          comps |-> Resolve(base).comps
                    \o SelectSeq(SubSeq(parts, 1, Len(parts) - 1), LAMBDA c : c # <<>>)]

\* C10 for the comfy_client.py function alone.
C10_ClientSearchDirByType ==
    (locClient.called /\ locClient.search.ok) =>
        Resolve(locClient.search.dir) = ClaimedSearchDir(locBase, locConfig)

\* C10: the search directory is selected by the output node's declared type:
\* "Image Save" searches the base output directory joined with output_path
\* after reference resolution and time-token expansion, the generic save node
\* the base joined with the components of filename_prefix before its final
\* separator (the base itself when the prefix has none).
C10_SearchDirByType ==
    /\ C10_ClientSearchDirByType
    /\ locLegacy.called =>
          Resolve(locLegacy.search.dir) = ClaimedSearchDir(base_output_dir, locConfig)

\* The timestamp as C11 words it: year, month, day, an underscore, hour,
\* minute, second (the code separates year, month and day with hyphens).
ClaimedStamp(seconds) ==
    year_digits \o month_digits \o day_digits \o <<"_">>
    \o hour_digits \o TwoDigits(seconds \div 60) \o TwoDigits(seconds % 60)

WithoutHyphens(s) == SelectSeq(s, LAMBDA c : c # "-")

EncodedDescriptor ==
    <<"f","i","l","e","n","a","m","e","=","a","+","1",".","p","n","g","&",
      "s","u","b","f","o","l","d","e","r","=","s","%","2","F","t","&",
      "t","y","p","e","=","o","u","t","p","u","t">>

\* The output mode is 'url', compared without regard to case.
UrlMode ==
    /\ output_mode # NoneChars
    /\ Len(output_mode) = 3
    /\ output_mode[1] \in {"u", "U"} /\ output_mode[2] \in {"r", "R"}
    /\ output_mode[3] \in {"l", "L"}

\* C12: on success generate_image returns the reference URL (the external
\* base URL, "/view?", the URL-encoded image descriptor of the job) if and
\* only if the output mode is 'url' compared case-insensitively, and the raw
\* image bytes in every other configuration, an unset output mode included.
C12_UrlIffUrlMode ==
    (Finished /\ Succeeded) =>
        /\ UrlMode <=> ret.kind = "url"
        /\ ~UrlMode <=> ret.kind = "image"
        /\ ret.kind = "url" =>
              /\ ret.server = override_host
              /\ override_host # None
              /\ result.outputs[output_node_id].images.items[1] = descriptor
              /\ ret.rest = <<"/","v","i","e","w","?">> \o EncodedDescriptor
        /\ ret.kind = "image" => ret.data = source.file.data

\* A call succeeded in url mode, spelled with an upper-case letter, with an
\* external base URL configured.
C12_Witness ==
    /\ Finished /\ ret.kind = "url"
    /\ output_mode = <<"U","r","l">>
    /\ override_host # host

\* ------------------------------------------------ the functions of workflow.py
Normalized(times) == wfOut.op = "workflow_to_api_format" /\ wfOut.times = times

\* C13: workflow_to_api_format returns its argument unchanged whenever the
\* document has no "nodes" key: a flat document passes through with equal
\* content.
C13_FlatPassesThrough ==
    (Normalized(1) /\ wfDoc.form = "api") => wfOut.out = wfDoc.api

\* The normalizer was applied to the flat document with three nodes.
C13_Witness ==
    /\ Normalized(1)
    /\ wfDoc = FlatDoc
    /\ DOMAIN wfOut.out = {"6", "7", "9"}

\* C14: the normalizer is idempotent: for a graph-form document w,
\* workflow_to_api_format(workflow_to_api_format(w)) equals
\* workflow_to_api_format(w).
C14_NormalizerIdempotent ==
    (Normalized(2) /\ wfDoc.form = "graph") =>
        /\ wfOut.arg.api = workflow_to_api_format(wfDoc)
        /\ wfOut.out = wfOut.arg.api

\* The normalizer was applied twice to a graph-form document whose flat form
\* has a widget value and a reference.
C14_Witness ==
    /\ Normalized(2)
    /\ wfDoc.form = "graph"
    /\ "1" \in DOMAIN wfOut.out
    /\ \E a, b \in DOMAIN wfOut.out["1"].inputs :
          wfOut.out["1"].inputs[a].kind = "str" /\ wfOut.out["1"].inputs[b].kind = "ref"

\* The positions of a node's widget-flagged inputs, in declared order.
WidgetPositions(node) ==
    SelectSeq([i \in 1..Len(node.inputs) |-> i], LAMBDA i : node.inputs[i].widget)

\* The node's widget-value sequence; none without the key.
WidgetValues(node) == IF node.hasWidgets THEN node.widgets_values ELSE <<>>

\* C15: for every node of a graph-form document, the k-th widget-flagged
\* input of the node (counting that node's widget-flagged inputs only, in
\* declared order, from the start at each node) is assigned the k-th element
\* of the node's widget-value sequence under the input's name; widget-flagged
\* inputs beyond the length of the sequence are absent from the flat inputs,
\* and no error is raised.
C15_WidgetValuesByCursor ==
    (Normalized(1) /\ wfDoc.form = "graph") =>
        /\ "kind" \notin DOMAIN wfOut.out
        /\ \A n \in 1..Len(wfDoc.nodes) :
              LET node == wfDoc.nodes[n]
                  flat == wfOut.out[ToString(node.id)].inputs
                  wp == WidgetPositions(node)
              IN \A k \in 1..Len(wp) :
                    IF k <= Len(WidgetValues(node))
                    THEN /\ node.inputs[wp[k]].name \in DOMAIN flat
                         /\ flat[node.inputs[wp[k]].name] = WidgetValues(node)[k]
                    ELSE node.inputs[wp[k]].name \notin DOMAIN flat

\* A node whose second input is its first widget-flagged one and has more
\* widget-flagged inputs than values, followed by a node with a value of
\* its own.
C15_Witness ==
    /\ Normalized(1)
    /\ wfDoc.form = "graph"
    /\ Len(wfDoc.nodes) = 2
    /\ wfDoc.nodes[1].id = 1
    /\ wfDoc.nodes[1].hasWidgets
    /\ Len(wfDoc.nodes[1].inputs) = 2
    /\ ~wfDoc.nodes[1].inputs[1].widget /\ wfDoc.nodes[1].inputs[2].widget
    /\ DOMAIN wfOut.out["1"].inputs = {"steps"}
    /\ wfOut.out["1"].inputs["steps"] = Str("v1")
    /\ wfOut.out["2"].inputs["text"] = Str("w1")

\* C16: for every node of a graph-form document and every input of it that
\* carries a link id: if the link list has a record with that id, the flat
\* inputs map the input's name to the reference [source node id as a
\* string, source output index] of that record; if it has none the input is
\* absent.  Inputs with neither a widget flag nor a resolvable link are
\* absent from the flat inputs.
C16_LinkedInputsReferenced ==
    (Normalized(1) /\ wfDoc.form = "graph") =>
        \A n \in 1..Len(wfDoc.nodes) :
            LET node == wfDoc.nodes[n]
                flat == wfOut.out[ToString(node.id)].inputs
                records(inp) == { l \in 1..Len(wfDoc.links) : wfDoc.links[l][1] = inp.link }
            IN \A i \in 1..Len(node.inputs) :
                  LET inp == node.inputs[i] IN
                  /\ (inp.link # NoLink /\ records(inp) # {}) =>
                        /\ inp.name \in DOMAIN flat
                        /\ \E l \in records(inp) :
                              flat[inp.name] = Ref(ToString(wfDoc.links[l][2]), wfDoc.links[l][3])
                  /\ (inp.link # NoLink /\ records(inp) = {} /\ ~inp.widget) =>
                        inp.name \notin DOMAIN flat
                  /\ (inp.link = NoLink /\ ~inp.widget) => inp.name \notin DOMAIN flat

\* The node's title, case-folded, contains one of the keywords.
TitleHasKeyword(node, kws) ==
    \E kw \in kws : \E i \in 1..Len(node.title) :
        /\ i + Len(kw) - 1 <= Len(node.title)
        /\ \A j \in 1..Len(kw) : LowerChar(node.title[i + j - 1]) = LowerChar(kw[j])

\* The positions of the nodes pass 1 accepts, and of the nodes of a type.
TitleAndTypeMatches(doc, kws, ct) ==
    { k \in 1..Len(doc.nodes) :
        TitleHasKeyword(doc.nodes[k], kws) /\ (ct = None \/ doc.nodes[k].type = ct) }
OfType(doc, ct) == { k \in 1..Len(doc.nodes) : doc.nodes[k].type = ct }
Least(S) == CHOOSE k \in S : \A j \in S : k <= j

Discovered == wfOut.op = "auto_discover_node_id"

\* C17: pass 1 of auto_discover_node_id: scanning the nodes in document
\* order it returns the id, as a string, of the first node whose case-folded
\* title contains one of the keywords and whose type is the required type
\* when one is given; with a required type, a node of another type is never
\* returned, titled or not.
C17_FirstTitledNodeOfType ==
    (Discovered /\ wfDoc.form = "graph") =>
        LET m == TitleAndTypeMatches(wfDoc, wfOut.title_keywords, wfOut.class_type) IN
        /\ m # {} => wfOut.out = ToString(wfDoc.nodes[Least(m)].id)
        /\ (wfOut.class_type # None /\ wfOut.out # None) =>
              \E k \in OfType(wfDoc, wfOut.class_type) : ToString(wfDoc.nodes[k].id) = wfOut.out

\* A titled node of another type comes first; the second node, titled and
\* of the required type, is returned.
C17_Witness ==
    /\ Discovered
    /\ wfDoc.form = "graph"
    /\ Len(wfDoc.nodes) = 2
    /\ wfOut.class_type = "CLIPTextEncode"
    /\ TitleHasKeyword(wfDoc.nodes[1], wfOut.title_keywords)
    /\ wfDoc.nodes[1].type = "SaveImage"
    /\ TitleHasKeyword(wfDoc.nodes[2], wfOut.title_keywords)
    /\ wfOut.out = "5"

\* C18: pass 2 of auto_discover_node_id counts only when pass 1 matched no
\* node and a required type was given; the result is then the id of the
\* first node in document order of the required type, whatever its title,
\* and none when no node has the type.  The result is none as well when pass
\* 1 matched no node and no type was required, and when the document has no
\* node sequence.
C18_FallbackToType ==
    Discovered =>
        IF wfDoc.form # "graph" THEN wfOut.out = None
        ELSE LET m == TitleAndTypeMatches(wfDoc, wfOut.title_keywords, wfOut.class_type)
                 t == OfType(wfDoc, wfOut.class_type)
             IN IF m # {} THEN wfOut.out = ToString(wfDoc.nodes[Least(m)].id)
                ELSE IF wfOut.class_type # None /\ t # {}
                     THEN wfOut.out = ToString(wfDoc.nodes[Least(t)].id)
                     ELSE wfOut.out = None

\* Pass 1 matched nothing, the first node being titled but of another type;
\* pass 2 returned the untitled second node of the required type.
C18_Witness ==
    /\ Discovered
    /\ wfDoc.form = "graph"
    /\ Len(wfDoc.nodes) = 2
    /\ wfOut.class_type = "CLIPTextEncode"
    /\ TitleAndTypeMatches(wfDoc, wfOut.title_keywords, wfOut.class_type) = {}
    /\ TitleHasKeyword(wfDoc.nodes[1], wfOut.title_keywords)
    /\ wfDoc.nodes[2].title = <<>>
    /\ wfOut.out = "5"

\* What discovery returns for a role on the document.
Auto(role) ==
    CASE role = "pos" -> auto_discover_node_id(wfDoc, {kw_positive}, "CLIPTextEncode")
      [] role = "neg" -> auto_discover_node_id(wfDoc, {kw_negative}, "CLIPTextEncode")
      [] role = "filepath" -> auto_discover_node_id(wfDoc, {kw_path, kw_savepath}, "Text String")
      [] role = "output" ->
            IF wfOut.op = "module"
            THEN auto_discover_node_id(wfDoc, {kw_save, kw_saveimage}, "SaveImage")
            ELSE auto_discover_node_id(wfDoc, {kw_save, kw_saveimage}, "Image Save")

\* The override configuration supplies for a role: to discover_nodes its
\* argument, to the module its environment variable (for the positive
\* prompt PROMPT_NODE_ID when it is set, else POS_PROMPT_NODE_ID).  None
\* stands for "not supplied".
Supplied(role) ==
    IF wfOut.op = "discover_nodes" THEN {wfOut.overrides[role]} \ {None}
    ELSE CASE role = "pos" ->
                (IF wfOut.env.PROMPT_NODE_ID # None THEN {wfOut.env.PROMPT_NODE_ID}
                 ELSE {wfOut.env.POS_PROMPT_NODE_ID}) \ {None}
           [] role = "neg" -> {wfOut.env.NEG_PROMPT_NODE_ID} \ {None}
           [] role = "output" -> {wfOut.env.OUTPUT_NODE_ID} \ {None}

RolesResolved == wfOut.op \in {"discover_nodes", "module"}

C20_ResolveReference ==
    (wfOut.op = "resolve_node_input" /\ wfOut.input_value.kind = "ref") =>
        LET tpl == wfOut.workflow_template
            src == wfOut.input_value.node
            idx == wfOut.input_value.slot
        IN IF /\ src \in DOMAIN tpl
              /\ tpl[src].class_type = "Text String"
              /\ idx \in 0..3
           THEN wfOut.out = IF text_inputs[idx + 1] \in DOMAIN tpl[src].inputs
                            THEN tpl[src].inputs[text_inputs[idx + 1]]
                            ELSE Str(<<>>)
           ELSE wfOut.out = Str(<<>>)

\* C21: resolve_node_input always returns a string, for every input value
\* and every flat workflow: a non-null literal yields its string form, null
\* yields the empty string, and a resolved reference yields a string as well.
\* (Stated for the references with an output index from 0 on; the negative
\* ones are the subject of C20.)
C21_AlwaysString ==
    (/\ wfOut.op = "resolve_node_input"
     /\ wfOut.input_value.kind = "ref" => wfOut.input_value.slot >= 0) =>
        /\ wfOut.out.kind = "str"
        /\ wfOut.input_value.kind = "str" => wfOut.out = Str(wfOut.input_value.val)
        /\ wfOut.input_value.kind = "num" => wfOut.out = Str(ToString(wfOut.input_value.val))
        /\ wfOut.input_value.kind = "null" => wfOut.out = Str(<<>>)

\* A token as C22 reads it: "[time(" at position i, a format, and the first
\* ")]" after the opening.  ClosingAt is the position of that ")", 0 when
\* there is none.
RECURSIVE ClosingAt(_, _)
ClosingAt(s, j) ==
    IF j >= Len(s) THEN 0
    ELSE IF s[j] = ")" /\ s[j + 1] = "]" THEN j
    ELSE ClosingAt(s, j + 1)

OpensAt(s, i) == i + 5 <= Len(s) /\ SubSeq(s, i, i + 5) = time_open
IsTokenAt(s, i) == OpensAt(s, i) /\ ClosingAt(s, i + 6) # 0

\* The string with every token replaced by the time in the token's format.
RECURSIVE WithTokensReplaced(_, _)
WithTokensReplaced(s, i) ==
    IF i > Len(s) THEN <<>>
    ELSE IF IsTokenAt(s, i)
         THEN Strftime(SubSeq(s, i + 6, ClosingAt(s, i + 6) - 1), 1)
              \o WithTokensReplaced(s, ClosingAt(s, i + 6) + 2)
         ELSE <<s[i]>> \o WithTokensReplaced(s, i + 1)

\* C22: evaluate_time_tokens replaces every token [time(<format>)] of the
\* path string by the current local time in that format, so that no token
\* remains in the result, and leaves every other part of the string as it
\* was; a string without tokens is returned with equal content.
C22_EveryTokenReplaced ==
    wfOut.op = "evaluate_time_tokens" =>
        LET s == wfOut.path_str.val IN
        /\ wfOut.out.kind = "str"
        /\ wfOut.out.val = WithTokensReplaced(s, 1)
        /\ \A i \in 1..Len(wfOut.out.val) : ~IsTokenAt(wfOut.out.val, i)
        /\ (\A i \in 1..Len(s) : ~IsTokenAt(s, i)) => wfOut.out.val = s

\* The positive-prompt node id configured from the environment, by the
\* module and by ComfyConfig.from_environment.
PromptConfigured == wfOut.op \in {"module", "from_environment"}
ConfiguredPos == IF wfOut.op = "module" THEN wfOut.out.pos ELSE wfOut.out.pos_prompt_node_id

HasSubmitted(c) == calls[c].submitted.sent

\* The text the workflow submitted by c carries at a node.
SubmittedText(c, node) ==
    IF "text" \in DOMAIN calls[c].submitted.prompt[node].inputs
    THEN calls[c].submitted.prompt[node].inputs.text
    ELSE Null

\* The invocations that wrote their positive prompt into the template.
WrotePositive(d) == calls[d].pc \in {"fill_neg", "submit", "poll", "done"} /\ calls[d].ret = NoReturn

\* C24: the template is shared and written in place, so the workflow an
\* invocation submits carries, at the positive-prompt node, the text that
\* was last written there: its own prompt, or the prompt written by another
\* invocation that ran at the same time; the interleaving in which it is
\* the other's is reachable.
C24_SubmitsSharedTemplate ==
    \A c \in Callers :
        (HasSubmitted(c) /\ pos_prompt_node_id # neg_prompt_node_id) =>
            \/ SubmittedText(c, pos_prompt_node_id) = Str(calls[c].positive_prompt)
            \/ /\ ~calls[c].alone
               /\ \E d \in Callers \ {c} :
                     /\ WrotePositive(d)
                     /\ SubmittedText(c, pos_prompt_node_id) = Str(calls[d].positive_prompt)

\* An invocation called with one prompt submitted the workflow with the
\* prompt of the other.
C24_Witness ==
    \E c \in Callers, d \in Callers :
        /\ c # d
        /\ HasSubmitted(c)
        /\ pos_prompt_node_id # neg_prompt_node_id
        /\ calls[c].positive_prompt # calls[d].positive_prompt
        /\ WrotePositive(d)
        /\ SubmittedText(c, pos_prompt_node_id) = Str(calls[d].positive_prompt)

\* C25: an invocation that ran with no other one in flight submits the
\* loaded template with its own arguments filled in, and nothing of an
\* earlier invocation.
C25_SubmittedFromOwnArguments ==
    \A c \in Callers :
        (HasSubmitted(c) /\ calls[c].alone) =>
            calls[c].submitted.prompt =
                FillNegative(SetText(LoadedTemplate, pos_prompt_node_id, calls[c].positive_prompt),
                             neg_prompt_node_id, calls[c].negative_prompt)

\* The value an image descriptor has for a key.
DescriptorValue(d, key) ==
    LET i == CHOOSE i \in 1..Len(d) : d[i][1] = key IN d[i][2]

\* The files of the output storage the descriptor of the call's job names:
\* <output directory>/<subfolder>/<filename>.
JobFiles ==
    LET dir == Resolve(PathJoin(base_output_dir,
                                <<DescriptorValue(output_data, <<"s","u","b","f","o","l","d","e","r">>)>>, 1))
        name == DescriptorValue(output_data, <<"f","i","l","e","n","a","m","e">>)
    IN IF dir \in DOMAIN outputFs
       THEN { outputFs[dir][i] : i \in { j \in 1..Len(outputFs[dir]) : outputFs[dir][j].name = name } }
       ELSE {}

\* C26: the image a successful call persists and returns is the file of its
\* own job, the one the first image descriptor of its completed status
\* names, whenever the output storage holds that file, other image files
\* created in the same directory since notwithstanding.
C26_ReturnsOwnJobFile ==
    (Finished /\ Succeeded /\ JobFiles # {}) =>
        /\ source.file \in JobFiles
        /\ saveDir.files[full_path] = source.file.data
        /\ ret.kind = "image" => ret.data = source.file.data

\* C27: a successful call persists its image under a name no file of the
\* save directory had when the call started, so that with the file an
\* earlier call saved there are two distinct files, and the files that were
\* there keep their content.
C27_NeverOverwrites ==
    (Finished /\ Succeeded) =>
        /\ full_path \notin DOMAIN saveDir0.files
        /\ \A f \in DOMAIN saveDir0.files :
              f \in DOMAIN saveDir.files /\ saveDir.files[f] = saveDir0.files[f]
====
